---------------------------- MODULE Spec2Model ----------------------------
(***************************************************************************)
(* A model of the webfetch tool of src/pi-extensions/webfetch.ts: one      *)
(* invocation of execute() as a state machine whose steps run from one     *)
(* await of the code to the next, against a nondeterministic server and a  *)
(* caller that may abort the cancellation signal at any moment.            *)
(*                                                                         *)
(* Strings are modelled by their structure:                                *)
(*   - a hostname is a record (DNS labels, IPv4 octets or IPv6 groups);    *)
(*   - a URL is a record [scheme, cred, host, path], cred being TRUE when  *)
(*     the URL carries a user:password@ component;                         *)
(*   - a text is the sequence of the lengths of its lines (ASCII, so       *)
(*     characters = bytes): "ab\nc" is <<2, 1>>, "" is <<0>>;              *)
(*   - the value of the override environment variable is a sequence of     *)
(*     one-character strings.                                              *)
(***************************************************************************)
EXTENDS Integers, Sequences, FiniteSets, TLC

\* ------------------------------------------------------------------------
\* Program constants
\* ------------------------------------------------------------------------

MAX_REDIRECTS == 10

\* Size limits, scaled down so that every truncation case is reachable with
\* texts of a few characters (2000 lines, 50 KiB, 8192 bytes and
\* 1000..100000 characters in the program).
DEFAULT_MAX_LINES == 3
DEFAULT_MAX_BYTES == 8
DEFAULT_PROBE_MAX_BYTES == 4
MIN_MAX_CHARS == 4

REDIRECT_STATUS_CODES == {301, 302, 303, 307, 308}


\* ------------------------------------------------------------------------
\* The override environment variable
\* ------------------------------------------------------------------------

Unset == <<"unset">>

IsWhitespace(c) == c \in {" ", "\t"}

RECURSIVE TrimStart(_)
TrimStart(s) ==
    IF s # <<>> /\ IsWhitespace(Head(s)) THEN TrimStart(Tail(s)) ELSE s

RECURSIVE TrimEnd(_)
TrimEnd(s) ==
    IF s # <<>> /\ IsWhitespace(s[Len(s)])
    THEN TrimEnd(SubSeq(s, 1, Len(s) - 1))
    ELSE s

Trim(s) == TrimEnd(TrimStart(s))

UpperLetters ==
    <<"A", "B", "C", "D", "E", "F", "G", "H", "I", "J", "K", "L", "M",
      "N", "O", "P", "Q", "R", "S", "T", "U", "V", "W", "X", "Y", "Z">>
LowerLetters ==
    <<"a", "b", "c", "d", "e", "f", "g", "h", "i", "j", "k", "l", "m",
      "n", "o", "p", "q", "r", "s", "t", "u", "v", "w", "x", "y", "z">>

LowerOf ==
    [c \in {UpperLetters[i] : i \in 1..26} |->
        LowerLetters[CHOOSE i \in 1..26 : UpperLetters[i] = c]]

LowerChar(c) == IF c \in DOMAIN LowerOf THEN LowerOf[c] ELSE c

ToLowerCase(s) == [i \in 1..Len(s) |-> LowerChar(s[i])]

shouldAllowPrivateHostsExact(e) ==
    e # Unset /\ e \in {<<"1">>, <<"t","r","u","e">>, <<"y","e","s">>}

shouldAllowPrivateHosts(e) ==
    /\ e # Unset
    /\ ToLowerCase(Trim(e)) \in {<<"1">>, <<"t","r","u","e">>, <<"y","e","s">>}

\* ------------------------------------------------------------------------
\* Hostnames and the private-network guard
\* ------------------------------------------------------------------------

DnsHost(labels) == [kind |-> "dns", name |-> labels, o |-> <<>>, dot |-> FALSE]
V4Host(a, b, c, d) == [kind |-> "v4", name |-> <<>>, o |-> <<a, b, c, d>>, dot |-> FALSE]
V6Host(groups) == [kind |-> "v6", name |-> <<>>, o |-> groups, dot |-> FALSE]

METADATA_HOSTS == {<<"metadata", "google", "internal">>}

\* Lower-casing is done by the URL parser; what is left to do is to strip the
\* trailing dot (the brackets of an IPv6 literal are not part of the record).
normalizeHostname(h) == [h EXCEPT !.dot = FALSE]

parseIPv4(h) ==
    IF h.kind = "v4" /\ Len(h.o) = 4 /\ \A i \in 1..4 : h.o[i] \in 0..255
    THEN h.o
    ELSE <<>>

isPrivateIPv4(h) ==
    LET octets == parseIPv4(h) IN
    /\ octets # <<>>
    /\ LET a == octets[1]
           b == octets[2]
       IN \/ a = 10 \/ a = 127 \/ a = 0
          \/ a = 169 /\ b = 254
          \/ a = 172 /\ b >= 16 /\ b <= 31
          \/ a = 192 /\ b = 168
          \/ a = 100 /\ b >= 64 /\ b <= 127

\* The URL parser hands an IPv6 literal over in its serialized form: hex
\* groups, the first longest run of two or more zero groups written "::",
\* and no dotted quad.  ZeroRun is the length of the run of zero groups
\* that starts at group i.
RECURSIVE ZeroRun(_, _)
ZeroRun(g, i) ==
    IF i > Len(g) THEN 0
    ELSE IF g[i] # 0 THEN 0
    ELSE 1 + ZeroRun(g, i + 1)

LongestZeroRun(g) ==
    CHOOSE n \in 0..Len(g) :
        /\ \E i \in 1..Len(g) : ZeroRun(g, i) = n
        /\ \A i \in 1..Len(g) : ZeroRun(g, i) <= n

\* The serialized address begins with "::ffff:": its leading zero groups
\* are the compressed run, the next group is ffff and another follows.
StartsWithMappedPrefix(g) ==
    LET k == ZeroRun(g, 1) IN
    /\ k >= 2
    /\ k = LongestZeroRun(g)
    /\ k + 1 < Len(g)
    /\ g[k + 1] = 65535

\* The textual tests of isPrivateIPv6 on the serialized address, expressed
\* on its eight groups: "::" and "::1"; the prefix "fe80:"; a first group
\* of four hex digits that begin with fc or fd; the prefix "::ffff:", after
\* which the pattern of a dotted quad never matches the hex groups, so that
\* the answer is true.
isPrivateIPv6(h) ==
    /\ h.kind = "v6"
    /\ LET g == h.o IN
       \/ \A i \in 1..8 : g[i] = 0
       \/ (\A i \in 1..7 : g[i] = 0) /\ g[8] = 1
       \/ g[1] = 65152
       \/ g[1] >= 64512 /\ g[1] <= 65023
       \/ StartsWithMappedPrefix(g)

NoHost == [kind |-> "none", name |-> <<>>, o |-> <<>>, dot |-> FALSE]

NoReason == [blocked |-> FALSE, why |-> "", host |-> NoHost]

getPrivateHostBlockReason(e, h) ==
    IF shouldAllowPrivateHosts(e) THEN NoReason
    ELSE LET normalized == normalizeHostname(h) IN
         IF normalized.kind = "dns" /\ normalized.name = <<>>
         THEN [blocked |-> TRUE, why |-> "Target host is empty", host |-> normalized]
         ELSE IF normalized.kind = "dns"
                 /\ normalized.name[Len(normalized.name)] = "localhost"
         THEN [blocked |-> TRUE, why |-> "Blocked private host", host |-> normalized]
         ELSE IF normalized.kind = "dns" /\ normalized.name \in METADATA_HOSTS
         THEN [blocked |-> TRUE, why |-> "Blocked metadata host", host |-> normalized]
         ELSE IF isPrivateIPv4(normalized) \/ isPrivateIPv6(normalized)
         THEN [blocked |-> TRUE, why |-> "Blocked private IP host", host |-> normalized]
         ELSE NoReason

\* ------------------------------------------------------------------------
\* URLs, the raw input and credential redaction
\* ------------------------------------------------------------------------

Url(scheme, cred, host, path) ==
    [scheme |-> scheme, cred |-> cred, host |-> host, path |-> path]

\* The empty string where the code has no URL.
NoUrl == Url("", FALSE, NoHost, "")

\* A raw input renders as
\*   (lead ? " " : "") (scheme # "" ? scheme "://" : "")
\*   (user # <<>> ? user ":secret@" : "") host path.
\* shape "empty" is a blank string, shape "unparseable" a string the URL
\* parser rejects.  cred tells what the string shows of its credentials:
\* "none", "clear" or "redacted".
RawUrl(shape, lead, scheme, user, host, path) ==
    [shape |-> shape, lead |-> lead, scheme |-> scheme, user |-> user,
     cred |-> IF user = <<>> THEN "none" ELSE "clear",
     host |-> host, path |-> path]

SchemeFirst == {"a", "b", "c", "d", "e", "m", "r", "s", "u", "y"}
SchemeRest == SchemeFirst \cup {"0", "1", "+", ".", "-"}

\* /^[a-z][a-z0-9+.-]*:/ on a string that starts with name ":".
SchemeLike(name) ==
    /\ name # <<>>
    /\ name[1] \in SchemeFirst
    /\ \A i \in 2..Len(name) : name[i] \in SchemeRest

hasScheme(raw) == raw.scheme # "" \/ SchemeLike(raw.user)

NormOk(u) == [ok |-> TRUE, url |-> u, error |-> ""]
NormErr(msg) == [ok |-> FALSE, url |-> NoUrl, error |-> msg]

\* A variant without the protocol test.
normalizeUrlAnyScheme(raw) ==
    IF raw.shape = "empty" THEN NormErr("URL must not be empty")
    ELSE IF raw.shape = "unparseable" THEN NormErr("Invalid URL")
    ELSE NormOk(Url(IF raw.scheme = "" THEN "https" ELSE raw.scheme,
                    raw.user # <<>>, raw.host,
                    IF raw.path = "" THEN "/" ELSE raw.path))

normalizeUrl(raw) ==
    IF raw.shape = "empty" THEN NormErr("URL must not be empty")
    ELSE IF raw.shape = "unparseable" THEN NormErr("Invalid URL")
    ELSE IF raw.scheme = "" /\ hasScheme(raw)
         \* "user:secret@host" parses with the scheme "user:"
    THEN NormErr("Unsupported URL scheme")
    ELSE IF raw.scheme \notin {"", "http", "https"}
    THEN NormErr("Unsupported URL scheme")
    ELSE NormOk(Url(IF raw.scheme = "" THEN "https" ELSE raw.scheme,
                    raw.user # <<>>, raw.host,
                    IF raw.path = "" THEN "/" ELSE raw.path))

\* The three replacements of redactRawUrlCredentials: the first needs
\* "scheme://" before the credentials, the second a leading "//", the third
\* is anchored at the very start of the (untrimmed) string.
redactRawUrlCredentials(raw) ==
    IF raw.cred # "clear" THEN raw
    ELSE IF raw.scheme # "" THEN [raw EXCEPT !.cred = "redacted"]
    ELSE IF ~raw.lead THEN [raw EXCEPT !.cred = "redacted"]
    ELSE raw

redactUrlCredentials(u) ==
    IF u = NoUrl THEN NoUrl ELSE [u EXCEPT !.cred = FALSE]

\* A Location header or an href: absolute, relative (a path), unparseable,
\* or absent.
AbsLoc(u) == [kind |-> "abs", url |-> u, path |-> ""]
RelLoc(p) == [kind |-> "rel", url |-> NoUrl, path |-> p]
BadLoc == [kind |-> "invalid", url |-> NoUrl, path |-> ""]
NoLoc == [kind |-> "none", url |-> NoUrl, path |-> ""]

\* new URL(location, base).toString(): a relative reference keeps the
\* scheme, the credentials and the host of the base.
ResolveUrl(loc, base) ==
    IF loc.kind = "abs" THEN loc.url ELSE [base EXCEPT !.path = loc.path]

\* ------------------------------------------------------------------------
\* Texts
\* ------------------------------------------------------------------------

EmptyText == <<0>>

RECURSIVE SumSeq(_)
SumSeq(s) == IF s = <<>> THEN 0 ELSE Head(s) + SumSeq(Tail(s))

\* string.length, and the UTF-8 byte length of an ASCII text.
Chars(t) == SumSeq(t) + Len(t) - 1

Concat(a, b) ==
    SubSeq(a, 1, Len(a) - 1) \o <<a[Len(a)] + b[1]>> \o Tail(b)

\* text.slice(0, n)
RECURSIVE Slice(_, _)
Slice(t, n) ==
    IF n <= t[1] THEN <<n>>
    ELSE IF Len(t) = 1 THEN t
    ELSE <<t[1]>> \o Slice(Tail(t), n - t[1] - 1)

NoTruncation ==
    [truncated |-> FALSE, truncatedBy |-> "none", totalLines |-> 0,
     totalBytes |-> 0, outputLines |-> 0, outputBytes |-> 0]

\* The loop of truncateHead: the number of whole lines, from line i on,
\* that fit in maxLines and maxBytes given `used` bytes already taken.
RECURSIVE LinesThatFit(_, _, _, _, _)
LinesThatFit(lines, i, used, maxLines, maxBytes) ==
    IF i > Len(lines) \/ i > maxLines THEN i - 1
    ELSE LET lineBytes == lines[i] + (IF i > 1 THEN 1 ELSE 0) IN
         IF used + lineBytes > maxBytes THEN i - 1
         ELSE LinesThatFit(lines, i + 1, used + lineBytes, maxLines, maxBytes)

\* A variant that names the byte cap as the reason of every truncation.
truncateHeadNamingBytes(content, maxLines, maxBytes) ==
    LET totalBytes == Chars(content)
        totalLines == Len(content)
        n == IF content[1] > maxBytes THEN 0
             ELSE LinesThatFit(content, 1, 0, maxLines, maxBytes)
        kept == IF n = 0 THEN EmptyText ELSE SubSeq(content, 1, n)
        cut == totalLines > maxLines \/ totalBytes > maxBytes
    IN [content |-> IF cut THEN kept ELSE content,
        info |-> [truncated |-> cut,
                  truncatedBy |-> IF cut THEN "bytes" ELSE "none",
                  totalLines |-> totalLines, totalBytes |-> totalBytes,
                  outputLines |-> IF cut THEN n ELSE totalLines,
                  outputBytes |-> IF cut THEN Chars(kept) ELSE totalBytes]]

truncateHead(content, maxLines, maxBytes) ==
    LET totalBytes == Chars(content)
        totalLines == Len(content)
    IN IF totalLines <= maxLines /\ totalBytes <= maxBytes
       THEN [content |-> content,
             info |-> [truncated |-> FALSE, truncatedBy |-> "none",
                       totalLines |-> totalLines, totalBytes |-> totalBytes,
                       outputLines |-> totalLines, outputBytes |-> totalBytes]]
       ELSE IF content[1] > maxBytes
       THEN [content |-> EmptyText,
             info |-> [truncated |-> TRUE, truncatedBy |-> "bytes",
                       totalLines |-> totalLines, totalBytes |-> totalBytes,
                       outputLines |-> 0, outputBytes |-> 0]]
       ELSE LET n == LinesThatFit(content, 1, 0, maxLines, maxBytes)
                kept == SubSeq(content, 1, n)
            IN [content |-> kept,
                info |-> [truncated |-> TRUE,
                          truncatedBy |-> IF n >= maxLines THEN "lines" ELSE "bytes",
                          totalLines |-> totalLines, totalBytes |-> totalBytes,
                          outputLines |-> n, outputBytes |-> Chars(kept)]]

\* A variant that goes on appending to a head that was already cut.
appendChunkToHeadRecounting(headText, headTruncation, chunkText) ==
    LET next == truncateHead(Concat(headText, chunkText),
                             DEFAULT_MAX_LINES, DEFAULT_MAX_BYTES)
    IN [headText |-> next.content,
        headTruncation |-> IF next.info.truncated THEN next.info
                           ELSE NoTruncation]

appendChunkToHead(headText, headTruncation, chunkText) ==
    IF headTruncation.truncated \/ Chars(chunkText) = 0
    THEN [headText |-> headText, headTruncation |-> headTruncation]
    ELSE LET next == truncateHead(Concat(headText, chunkText),
                                  DEFAULT_MAX_LINES, DEFAULT_MAX_BYTES)
         IN [headText |-> next.content,
             headTruncation |-> IF next.info.truncated THEN next.info
                                ELSE NoTruncation]

\* ------------------------------------------------------------------------
\* Content types, response bodies and what the detectors see in a text
\* ------------------------------------------------------------------------

\* A Content-Type header: type "/" sub, params when a ";charset=..." part
\* follows; NoContentType is the missing header.
ContentType(major, sub, params) == [major |-> major, sub |-> sub, params |-> params]
NoContentType == ContentType("", "", FALSE)
TextPlain == ContentType("text", "plain", FALSE)
TextHtml == ContentType("text", "html", TRUE)
TextMarkdown == ContentType("text", "markdown", FALSE)
ImagePng == ContentType("image", "png", FALSE)
AppJson == ContentType("application", "json", FALSE)

TEXTUAL_CONTENT_TYPES ==
    {"json", "javascript", "xml", "xhtml+xml", "x-www-form-urlencoded",
     "x-sh", "x-shellscript", "shellscript"}

isTextContentType(ct) ==
    IF ct.major = "" THEN FALSE
    ELSE IF ct.major = "text" THEN TRUE
    ELSE IF ct.sub \in {"ld+json", "atom+xml"} THEN TRUE
    ELSE ct.major = "application" /\ ct.sub \in TEXTUAL_CONTENT_TYPES

\* What the regular expressions of detectJsShell, parseHtmlAlternates and
\* isUsefulSmartAlternate find in a body: the number of <script tags, the
\* length of the visible text, the three markers, whether the body is
\* whitespace only, and the <link> tags it holds.
Features(scripts, visible, root, jsreq, hydr, blank, alts) ==
    [scripts |-> scripts, visible |-> visible, root |-> root, jsreq |-> jsreq,
     hydr |-> hydr, blank |-> blank, alts |-> alts]

NoFeatures == Features(0, 0, FALSE, FALSE, FALSE, TRUE, <<>>)

\* A link (of a Link header or of a <link> tag): its href, whether its rel
\* holds "alternate", and whether its type or its path says markdown.
LinkEntry(href, alternate, markdown) ==
    [href |-> href, alternate |-> alternate, markdown |-> markdown]

\* A text handed to the caller or to a detector: the body text kept, the
\* notice appended to it and the features found in it.
TextOut(content, notice, feat) ==
    [content |-> content, notice |-> notice,
     feat |-> IF Chars(content) = 0 THEN NoFeatures ELSE feat]

NoText == TextOut(EmptyText, "none", NoFeatures)

\* text.replace(/\s+/g, " ").trim().length > 0
NonBlank(t) == t.notice # "none" \/ (Chars(t.content) > 0 /\ ~t.feat.blank)

\* string.length of a text: a notice is joined to the body text by "\n\n"
\* (the probe notice stands alone after an empty sample).  The size limits
\* being scaled down, every notice is counted as NOTICE_CHARS characters.
SEPARATOR_CHARS == 2
NOTICE_CHARS == 1
TextLength(t) ==
    IF t.notice = "none" THEN Chars(t.content)
    ELSE IF t.notice = "probe" /\ Chars(t.content) = 0 THEN NOTICE_CHARS
    ELSE Chars(t.content) + SEPARATOR_CHARS + NOTICE_CHARS

\* The visible text of a text passed to detectJsShell: that of the body and,
\* when a notice was appended to it, the characters of the notice (the
\* shortest notice, `[Probe mode: sampled 0B.]`, has 25).
LOW_VISIBLE_TEXT == 220
NOTICE_VISIBLE_CHARS == 25
VisibleLength(t) ==
    t.feat.visible + (IF t.notice = "none" THEN 0 ELSE NOTICE_VISIBLE_CHARS)

VisibleClass(t) ==
    IF VisibleLength(t) = 0 THEN "none"
    ELSE IF VisibleLength(t) < LOW_VISIBLE_TEXT THEN "low"
    ELSE "rich"

\* A variant that classifies on one signal.
detectJsShellOneSignal(contentType, t) ==
    LET signals ==
            {x \in {"scripts", "lowtext", "root", "jsreq", "hydr"} :
                \/ x = "scripts" /\ t.feat.scripts >= 5
                \/ x = "lowtext" /\ VisibleClass(t) = "low" /\ t.feat.scripts >= 1
                \/ x = "root" /\ t.feat.root
                \/ x = "jsreq" /\ t.feat.jsreq
                \/ x = "hydr" /\ t.feat.hydr}
    IN IF contentType.major = "text" /\ contentType.sub = "html"
       THEN [detected |-> Cardinality(signals) >= 1, signals |-> signals]
       ELSE [detected |-> FALSE, signals |-> {}]

detectJsShell(contentType, t) ==
    LET signals ==
            {x \in {"scripts", "lowtext", "root", "jsreq", "hydr"} :
                \/ x = "scripts" /\ t.feat.scripts >= 5
                \/ x = "lowtext" /\ VisibleClass(t) = "low" /\ t.feat.scripts >= 1
                \/ x = "root" /\ t.feat.root
                \/ x = "jsreq" /\ t.feat.jsreq
                \/ x = "hydr" /\ t.feat.hydr}
    IN IF contentType.major = "text" /\ contentType.sub = "html"
       THEN [detected |-> Cardinality(signals) >= 2, signals |-> signals]
       ELSE [detected |-> FALSE, signals |-> {}]

\* ------------------------------------------------------------------------
\* Captured texts
\* ------------------------------------------------------------------------

\* A StreamedResponseText or ProbeResponseText; fullOutputPath is the number
\* of the temp directory, 0 when undefined.
Streamed(text, truncated, charTruncated, totalCharacters, fullOutputPath, truncation, isProbe, probeBytesRead, probeByteLimit) ==
    [text |-> text, truncated |-> truncated, charTruncated |-> charTruncated,
     totalCharacters |-> totalCharacters, fullOutputPath |-> fullOutputPath,
     truncation |-> truncation, isProbe |-> isProbe,
     probeBytesRead |-> probeBytesRead, probeByteLimit |-> probeByteLimit]

NoBodyStreamed ==
    Streamed(NoText, FALSE, FALSE, 0, 0, NoTruncation, FALSE, 0, 0)

NoBodyProbe ==
    Streamed(NoText, FALSE, FALSE, 0, 0, NoTruncation, TRUE, 0,
             DEFAULT_PROBE_MAX_BYTES)

buildStreamedTextAlwaysPath(headText, totalCharacters, maxChars, fullOutputPath, headTruncation, feat) ==
    LET charTruncated == Chars(headText) > maxChars
        truncated == headTruncation.truncated \/ charTruncated
        limitedText == IF charTruncated THEN Slice(headText, maxChars) ELSE headText
    IN Streamed(TextOut(limitedText, IF truncated THEN "truncation" ELSE "none", feat),
                truncated, charTruncated, totalCharacters, fullOutputPath,
                headTruncation, FALSE, 0, 0)

buildStreamedText(headText, totalCharacters, maxChars, fullOutputPath, headTruncation, feat) ==
    LET charTruncated == Chars(headText) > maxChars
        truncated == headTruncation.truncated \/ charTruncated
        limitedText == IF charTruncated THEN Slice(headText, maxChars) ELSE headText
    IN IF ~truncated
       THEN Streamed(TextOut(limitedText, "none", feat), FALSE, FALSE,
                     totalCharacters, 0, NoTruncation, FALSE, 0, 0)
       ELSE Streamed(TextOut(limitedText, "truncation", feat), TRUE, charTruncated,
                     totalCharacters, fullOutputPath, headTruncation, FALSE, 0, 0)

\* The end of probeResponseText, after the reader is cancelled.
buildProbeText(sampledText, bytesRead, limitReached, maxChars, probeByteLimit, feat) ==
    LET probeLimitReached == limitReached \/ bytesRead >= probeByteLimit
        charTruncated == Chars(sampledText) > maxChars
        bodyText == IF charTruncated THEN Slice(sampledText, maxChars) ELSE sampledText
    IN Streamed(TextOut(bodyText, "probe", feat),
                probeLimitReached \/ charTruncated, charTruncated,
                Chars(sampledText), 0, NoTruncation, TRUE, bytesRead, probeByteLimit)

\* ------------------------------------------------------------------------
\* Smart-strategy candidates
\* ------------------------------------------------------------------------

SmartCandidate(url, source) == [url |-> url, source |-> source]

RECURSIVE AlternatesOf(_, _, _)
AlternatesOf(entries, baseUrl, source) ==
    IF entries = <<>> THEN <<>>
    ELSE LET e == Head(entries)
             rest == AlternatesOf(Tail(entries), baseUrl, source)
         IN IF e.href.kind = "none" \/ ~e.alternate \/ ~e.markdown
               \/ e.href.kind = "invalid"
            THEN rest
            ELSE <<SmartCandidate(ResolveUrl(e.href, baseUrl), source)>> \o rest

parseLinkHeaderAlternates(linkHeader, baseUrl) ==
    AlternatesOf(linkHeader, baseUrl, "http-link-header")

parseHtmlAlternates(html, baseUrl) ==
    IF ~NonBlank(html) THEN <<>>
    ELSE AlternatesOf(html.feat.alts, baseUrl, "html-link-alternate")

GithubHost == DnsHost(<<"github", "com">>)
GithubRawHost == DnsHost(<<"raw", "githubusercontent", "com">>)

\* /owner/repo/blob/branch/file becomes /owner/repo/branch/file on the raw
\* host; the only blob path of the model is "/o/r/blob/main/f.md".
buildGithubRawCandidate(url) ==
    IF normalizeHostname(url.host) = GithubHost /\ url.path = "/o/r/blob/main/f.md"
    THEN <<SmartCandidate(Url("https", FALSE, GithubRawHost, "/o/r/main/f.md"),
                          "github-raw")>>
    ELSE <<>>

\* `${parsed.origin}/wp-json`: the origin carries no credentials.
buildWordPressApiCandidate(url) ==
    IF url.path = "/wp-json" THEN <<>>
    ELSE <<SmartCandidate(Url(url.scheme, FALSE, url.host, "/wp-json"),
                          "wordpress-api")>>

RECURSIVE DedupeFrom(_, _)
DedupeFrom(candidates, seen) ==
    IF candidates = <<>> THEN <<>>
    ELSE LET c == Head(candidates) IN
         IF c.url \in seen THEN DedupeFrom(Tail(candidates), seen)
         ELSE <<c>> \o DedupeFrom(Tail(candidates), seen \cup {c.url})

\* A variant that keeps every candidate.
dedupeSmartCandidatesKeepAll(candidates) == candidates

dedupeSmartCandidates(candidates) == DedupeFrom(candidates, {})

collectSmartCandidates(linkHeader, body, finalUrl, jsShellDetected) ==
    LET linkHeaderCandidates == parseLinkHeaderAlternates(linkHeader, finalUrl)
        htmlCandidates == parseHtmlAlternates(body, finalUrl)
        heuristicCandidates ==
            IF jsShellDetected
            THEN buildGithubRawCandidate(finalUrl) \o buildWordPressApiCandidate(finalUrl)
            ELSE <<>>
    IN dedupeSmartCandidates(linkHeaderCandidates \o htmlCandidates
                             \o heuristicCandidates)

\* ------------------------------------------------------------------------
\* Request headers
\* ------------------------------------------------------------------------

\* Header names are sequences of characters, header values strings; a
\* Record<string, string> is the sequence of its entries in insertion order.
DEFAULT_ACCEPT_HEADER == "text/markdown, text/html"
DEFAULT_ACCEPT_ENCODING == "identity"
REDACTED_CREDENTIALS == "[redacted]"

HOP_BY_HOP_REQUEST_HEADERS ==
    {<<"c", "o", "n", "n", "e", "c", "t", "i", "o", "n">>,
     <<"k", "e", "e", "p", "-", "a", "l", "i", "v", "e">>,
     <<"p", "r", "o", "x", "y", "-", "a", "u", "t", "h", "e", "n", "t", "i", "c", "a", "t", "e">>,
     <<"p", "r", "o", "x", "y", "-", "a", "u", "t", "h", "o", "r", "i", "z", "a", "t", "i", "o", "n">>,
     <<"t", "e">>,
     <<"t", "r", "a", "i", "l", "e", "r">>,
     <<"t", "r", "a", "n", "s", "f", "e", "r", "-", "e", "n", "c", "o", "d", "i", "n", "g">>,
     <<"u", "p", "g", "r", "a", "d", "e">>}

RESERVED_REQUEST_HEADERS ==
    {<<"a", "c", "c", "e", "p", "t", "-", "e", "n", "c", "o", "d", "i", "n", "g">>,
     <<"c", "o", "n", "t", "e", "n", "t", "-", "l", "e", "n", "g", "t", "h">>,
     <<"h", "o", "s", "t">>}

SENSITIVE_REQUEST_HEADERS ==
    {<<"a", "u", "t", "h", "o", "r", "i", "z", "a", "t", "i", "o", "n">>,
     <<"c", "o", "o", "k", "i", "e">>,
     <<"p", "r", "o", "x", "y", "-", "a", "u", "t", "h", "o", "r", "i", "z", "a", "t", "i", "o", "n">>,
     <<"x", "-", "a", "p", "i", "-", "k", "e", "y">>,
     <<"x", "-", "a", "u", "t", "h", "-", "t", "o", "k", "e", "n">>}

AcceptName == <<"A", "c", "c", "e", "p", "t">>
AcceptEncodingName == <<"A", "c", "c", "e", "p", "t", "-", "E", "n", "c", "o", "d", "i", "n", "g">>

Header(name, value) == [name |-> name, value |-> value]

\* An optional string parameter: absent, or a text with or without
\* surrounding whitespace (text is the trimmed content).
NoAccept == [given |-> FALSE, text |-> "", padded |-> FALSE]
AcceptParam(text, padded) == [given |-> TRUE, text |-> text, padded |-> padded]

\* !args.accept: undefined or the empty string
AcceptMissing(accept) == ~accept.given \/ (accept.text = "" /\ ~accept.padded)

normalizeHeaderName(headerName) == ToLowerCase(Trim(headerName))

\* string.includes(part)
Includes(str, part) ==
    \E i \in 0..(Len(str) - Len(part)) : SubSeq(str, i + 1, i + Len(part)) = part

isSensitiveHeader(headerName) ==
    LET normalized == normalizeHeaderName(headerName) IN
    \/ normalized \in SENSITIVE_REQUEST_HEADERS
    \/ Includes(normalized, <<"t", "o", "k", "e", "n">>)
    \/ Includes(normalized, <<"s", "e", "c", "r", "e", "t">>)
    \/ Includes(normalized, <<"p", "a", "s", "s", "w", "o", "r", "d">>)
    \/ Includes(normalized, <<"s", "e", "s", "s", "i", "o", "n">>)

\* A variant that redacts only the listed credential headers.
redactHeaderValueListed(headerName, value) ==
    IF normalizeHeaderName(headerName) \in SENSITIVE_REQUEST_HEADERS
    THEN REDACTED_CREDENTIALS ELSE value

redactHeaderValue(headerName, value) ==
    IF isSensitiveHeader(headerName) THEN REDACTED_CREDENTIALS ELSE value

\* requestHeaders[name] = value
SetHeader(headers, name, value) ==
    IF \E i \in 1..Len(headers) : headers[i].name = name
    THEN [i \in 1..Len(headers) |->
             IF headers[i].name = name THEN Header(name, value) ELSE headers[i]]
    ELSE Append(headers, Header(name, value))

\* A variant of the loop that compares the names as the caller wrote them.
RECURSIVE ApplyCustomHeadersCaseSensitive(_, _, _, _)
ApplyCustomHeadersCaseSensitive(accept, customHeaders, i, acc) ==
    IF i > Len(customHeaders) THEN acc
    ELSE LET trimmedName == Trim(customHeaders[i].name)
             rawValue == customHeaders[i].value
             next ==
                 IF trimmedName = <<>> THEN acc
                 ELSE IF normalizeHeaderName(trimmedName) = normalizeHeaderName(AcceptName)
                 THEN IF AcceptMissing(accept)
                      THEN [acc EXCEPT !.requestHeaders =
                                           SetHeader(@, AcceptName, rawValue)]
                      ELSE acc
                 ELSE IF trimmedName \in HOP_BY_HOP_REQUEST_HEADERS
                         \/ trimmedName \in RESERVED_REQUEST_HEADERS
                 THEN [acc EXCEPT !.blockedHeaders = Append(@, trimmedName)]
                 ELSE [acc EXCEPT !.requestHeaders =
                                      SetHeader(@, trimmedName, rawValue)]
         IN ApplyCustomHeadersCaseSensitive(accept, customHeaders, i + 1, next)

\* The loop of prepareRequestHeaders over the custom headers from entry i on.
RECURSIVE ApplyCustomHeaders(_, _, _, _)
ApplyCustomHeaders(accept, customHeaders, i, acc) ==
    IF i > Len(customHeaders) THEN acc
    ELSE LET rawName == customHeaders[i].name
             rawValue == customHeaders[i].value
             trimmedName == Trim(rawName)
             normalizedName == normalizeHeaderName(trimmedName)
             next ==
                 IF trimmedName = <<>> THEN acc
                 ELSE IF normalizedName = normalizeHeaderName(AcceptName)
                 THEN IF AcceptMissing(accept)
                      THEN [acc EXCEPT !.requestHeaders =
                                           SetHeader(@, AcceptName, rawValue)]
                      ELSE acc
                 ELSE IF normalizedName \in HOP_BY_HOP_REQUEST_HEADERS
                         \/ normalizedName \in RESERVED_REQUEST_HEADERS
                 THEN [acc EXCEPT !.blockedHeaders = Append(@, trimmedName)]
                 ELSE [acc EXCEPT !.requestHeaders =
                                      SetHeader(@, trimmedName, rawValue)]
         IN ApplyCustomHeaders(accept, customHeaders, i + 1, next)

prepareRequestHeaders(accept, customHeaders) ==
    LET acceptHeader == IF accept.text # "" THEN accept.text
                        ELSE DEFAULT_ACCEPT_HEADER
        filled == ApplyCustomHeaders(accept, customHeaders, 1,
                      [requestHeaders |->
                           <<Header(AcceptName, acceptHeader),
                             Header(AcceptEncodingName, DEFAULT_ACCEPT_ENCODING)>>,
                       blockedHeaders |-> <<>>])
    IN [requestHeaders |-> filled.requestHeaders,
        redactedHeaders |->
            [i \in 1..Len(filled.requestHeaders) |->
                Header(filled.requestHeaders[i].name,
                       redactHeaderValue(filled.requestHeaders[i].name,
                                         filled.requestHeaders[i].value))],
        blockedHeaders |-> filled.blockedHeaders,
        acceptHeader |-> filled.requestHeaders[1].value]

\* ------------------------------------------------------------------------
\* Fetch attempts and tool results
\* ------------------------------------------------------------------------

NoDetection == [detected |-> FALSE, signals |-> {}]

\* A FetchAttemptResult: kind "success" or "unsupported-content".
Attempt(kind, status, contentType, linkHeader, finalUrl, chain, streamed, js) ==
    [kind |-> kind, status |-> status, contentType |-> contentType,
     linkHeader |-> linkHeader, finalUrl |-> finalUrl, redirectChain |-> chain,
     streamed |-> streamed, jsShellDetection |-> js]

NoAttempt ==
    Attempt("none", 0, NoContentType, <<>>, NoUrl, <<>>, NoBodyStreamed, NoDetection)

Is2xx(status) == status >= 200 /\ status < 300

isUsefulSmartAlternate(a) ==
    IF ~Is2xx(a.status) THEN FALSE
    ELSE IF a.jsShellDetection.detected THEN FALSE
    ELSE NonBlank(a.streamed.text)

\* A smart note, with the URL it quotes (NoUrl when it quotes none).
Note(kind, url) == [kind |-> kind, url |-> url]

\* A variant that never appends the smart fallback notice.
TextBodyWithoutNotice(text, fallback, notes) ==
    [kind |-> "text", text |-> text, message |-> "", reason |-> NoReason,
     fallback |-> FALSE, notes |-> <<>>]

\* The body of the tool output: a captured text (with the smart fallback
\* notice, a list of notes, appended when fallback is TRUE) or a message.
TextBody(text, fallback, notes) ==
    [kind |-> "text", text |-> text, message |-> "", reason |-> NoReason,
     fallback |-> fallback, notes |-> notes]

MessageBody(message, reason) ==
    [kind |-> "message", text |-> NoText, message |-> message, reason |-> reason,
     fallback |-> FALSE, notes |-> <<>>]

\* The arguments of createToolResult, with the defaults it applies.
\* A variant that reports the first entry of the redirect chain as the
\* resolved URL.
ResultArgsFromChainHead(isError, resolvedUrl, finalUrl, chain, status, statusText, contentType, body) ==
    [isError |-> isError,
     resolvedUrl |-> IF chain = <<>> THEN resolvedUrl ELSE chain[1],
     finalUrl |-> finalUrl,
     redirectChain |-> chain, status |-> status, statusText |-> statusText,
     contentType |-> contentType, body |-> body,
     truncated |-> FALSE, truncatedByLines |-> FALSE, truncatedByBytes |-> FALSE,
     truncatedByMaxChars |-> FALSE, originalCharacters |-> 0,
     returnedCharacters |-> 0, fullOutputPath |-> 0, truncation |-> NoTruncation,
     detectedJsShell |-> FALSE, jsShellSignals |-> {},
     alternateCandidates |-> <<>>, alternateUrlUsed |-> NoUrl,
     smartNotes |-> <<>>, probeBytesRead |-> -1, probeByteLimit |-> -1]

ResultArgs(isError, resolvedUrl, finalUrl, chain, status, statusText, contentType, body) ==
    [isError |-> isError, resolvedUrl |-> resolvedUrl, finalUrl |-> finalUrl,
     redirectChain |-> chain, status |-> status, statusText |-> statusText,
     contentType |-> contentType, body |-> body,
     truncated |-> FALSE, truncatedByLines |-> FALSE, truncatedByBytes |-> FALSE,
     truncatedByMaxChars |-> FALSE, originalCharacters |-> 0,
     returnedCharacters |-> 0, fullOutputPath |-> 0, truncation |-> NoTruncation,
     detectedJsShell |-> FALSE, jsShellSignals |-> {},
     alternateCandidates |-> <<>>, alternateUrlUsed |-> NoUrl,
     smartNotes |-> <<>>, probeBytesRead |-> -1, probeByteLimit |-> -1]

RedactAll(urls) == [i \in 1..Len(urls) |-> redactUrlCredentials(urls[i])]

\* A variant that chooses the banner by the status.
formatToolOutputBannerByStatus(isError, url, status, statusText, contentType, body) ==
    [banner |-> IF status >= 400 THEN "Web fetch failed" ELSE "Web fetch succeeded",
     url |-> url, status |-> status, statusText |-> statusText,
     contentType |-> contentType, body |-> body]

formatToolOutput(isError, url, status, statusText, contentType, body) ==
    [banner |-> IF isError THEN "Web fetch failed" ELSE "Web fetch succeeded",
     url |-> url, status |-> status, statusText |-> statusText,
     contentType |-> contentType, body |-> body]

buildDetails(p, args) ==
    [requestedUrl |-> redactRawUrlCredentials(p.url),
     resolvedUrl |-> redactUrlCredentials(args.resolvedUrl),
     finalUrl |-> redactUrlCredentials(args.finalUrl),
     redirectChain |-> RedactAll(args.redirectChain),
     acceptHeader |-> p.preparedHeaders.acceptHeader,
     requestHeaders |-> p.preparedHeaders.redactedHeaders,
     blockedRequestHeaders |-> p.preparedHeaders.blockedHeaders,
     mode |-> p.mode, strategy |-> p.strategy,
     status |-> args.status, statusText |-> args.statusText,
     contentType |-> args.contentType,
     truncated |-> args.truncated,
     truncatedByLines |-> args.truncatedByLines,
     truncatedByBytes |-> args.truncatedByBytes,
     truncatedByMaxChars |-> args.truncatedByMaxChars,
     originalCharacters |-> args.originalCharacters,
     returnedCharacters |-> args.returnedCharacters,
     fullOutputPath |-> args.fullOutputPath,
     truncation |-> args.truncation,
     detectedJsShell |-> args.detectedJsShell,
     jsShellSignals |-> args.jsShellSignals,
     alternateCandidates |-> RedactAll(args.alternateCandidates),
     alternateUrlUsed |-> redactUrlCredentials(args.alternateUrlUsed),
     smartNotes |-> args.smartNotes,
     probeBytesRead |-> args.probeBytesRead,
     probeByteLimit |-> args.probeByteLimit]

createToolResult(p, args) ==
    [isError |-> args.isError,
     text |-> formatToolOutput(args.isError, redactUrlCredentials(args.finalUrl),
                               args.status, args.statusText, args.contentType,
                               args.body),
     details |-> buildDetails(p, args)]

NoResult ==
    [isError |-> FALSE,
     text |-> formatToolOutput(FALSE, NoUrl, 0, "", NoContentType, MessageBody("", NoReason)),
     details |-> [kind |-> "none"]]

CandidateUrls(candidates) == [i \in 1..Len(candidates) |-> candidates[i].url]

\* A variant that forces the status to 415.
buildUnsupportedContentResultForced(p, a, smartNotes, alternateCandidates) ==
    createToolResult(p,
        [ResultArgs(TRUE, a.finalUrl, a.finalUrl, a.redirectChain, 415, "",
                    a.contentType, MessageBody("Unsupported content-type", NoReason))
         EXCEPT !.alternateCandidates = CandidateUrls(alternateCandidates),
                !.smartNotes = smartNotes])

buildUnsupportedContentResult(p, a, smartNotes, alternateCandidates) ==
    createToolResult(p,
        [ResultArgs(TRUE, a.finalUrl, a.finalUrl, a.redirectChain, a.status, "",
                    a.contentType, MessageBody("Unsupported content-type", NoReason))
         EXCEPT !.alternateCandidates = CandidateUrls(alternateCandidates),
                !.smartNotes = smartNotes])

buildResultFromAttempt(p, a, isError, fallback, alternateCandidates, alternateUrlUsed, smartNotes) ==
    createToolResult(p,
        [ResultArgs(isError, a.finalUrl, a.finalUrl, a.redirectChain, a.status, "",
                    a.contentType, TextBody(a.streamed.text, fallback,
                                            IF fallback THEN smartNotes ELSE <<>>))
         EXCEPT !.truncated = a.streamed.truncated,
                !.truncatedByLines = a.streamed.truncation.truncatedBy = "lines",
                !.truncatedByBytes = a.streamed.truncation.truncatedBy = "bytes",
                !.truncatedByMaxChars = a.streamed.charTruncated,
                !.originalCharacters = a.streamed.totalCharacters,
                !.returnedCharacters =
                    TextLength(a.streamed.text)
                    + (IF fallback THEN SEPARATOR_CHARS + NOTICE_CHARS ELSE 0),
                !.fullOutputPath = a.streamed.fullOutputPath,
                !.truncation = a.streamed.truncation,
                !.detectedJsShell = a.jsShellDetection.detected,
                !.jsShellSignals = a.jsShellDetection.signals,
                !.alternateCandidates = CandidateUrls(alternateCandidates),
                !.alternateUrlUsed = alternateUrlUsed,
                !.smartNotes = smartNotes,
                !.probeBytesRead = IF a.streamed.isProbe
                                   THEN a.streamed.probeBytesRead ELSE -1,
                !.probeByteLimit = IF a.streamed.isProbe
                                   THEN a.streamed.probeByteLimit ELSE -1])

\* ------------------------------------------------------------------------
\* The state of one invocation
\* ------------------------------------------------------------------------

VARIABLES
    params,               \* the tool parameters (url, mode, strategy, maxChars,
                          \* accept, headers) with execute's preparedHeaders
    env,                  \* the value of WEBFETCH_ALLOW_PRIVATE_HOSTS
    signal,               \* signal.aborted
    abortedAt,            \* the await the invocation was suspended at when
                          \* the signal was aborted ("" while it is not)
    pc,                   \* the await the invocation is suspended at
    targetUrl,            \* execute: targetUrl
    currentUrl,           \* fetchWithRedirects: currentUrl
    redirectChain,        \* fetchWithRedirects: redirectChain
    redirectCount,        \* fetchWithRedirects: redirectCount
    response,             \* the response of the last fetch
    nextUrl,              \* fetchWithRedirects: nextUrl, while the body is cancelled
    blockReason,          \* fetchWithRedirects: blockReason
    attempt,              \* which fetchAttempt call is running, and its mode
    cap,                  \* the locals of streamResponseText / probeResponseText
    probeAttempt,         \* execute: probeAttempt
    alternateCandidates,  \* execute: alternateCandidates
    candIdx,              \* the position of the candidate loop
    smartNotes,           \* execute: smartNotes
    result,               \* the tool result returned
    thrown,               \* the error execute's catch block caught, if any
    requests,             \* every URL requested on the wire, in order
    wire,                 \* the headers sent with each of those requests
    attempts,             \* every fetchAttempt that returned, in order
    dirs                  \* every temp directory created, by number

vars ==
    <<params, env, signal, abortedAt, pc, targetUrl, currentUrl, redirectChain, redirectCount,
      response, nextUrl, blockReason, attempt, cap, probeAttempt,
      alternateCandidates, candIdx, smartNotes, result, thrown, requests,
      wire, attempts, dirs>>

Cur ==
    [signal |-> signal, pc |-> pc, targetUrl |-> targetUrl,
     currentUrl |-> currentUrl, redirectChain |-> redirectChain,
     redirectCount |-> redirectCount, response |-> response, nextUrl |-> nextUrl,
     blockReason |-> blockReason, attempt |-> attempt, cap |-> cap,
     probeAttempt |-> probeAttempt, alternateCandidates |-> alternateCandidates,
     candIdx |-> candIdx, smartNotes |-> smartNotes, result |-> result,
     thrown |-> thrown,
     requests |-> requests, wire |-> wire, attempts |-> attempts, dirs |-> dirs]

Install(s) ==
    /\ signal' = s.signal
    /\ pc' = s.pc
    /\ targetUrl' = s.targetUrl
    /\ currentUrl' = s.currentUrl
    /\ redirectChain' = s.redirectChain
    /\ redirectCount' = s.redirectCount
    /\ response' = s.response
    /\ nextUrl' = s.nextUrl
    /\ blockReason' = s.blockReason
    /\ attempt' = s.attempt
    /\ cap' = s.cap
    /\ probeAttempt' = s.probeAttempt
    /\ alternateCandidates' = s.alternateCandidates
    /\ candIdx' = s.candIdx
    /\ smartNotes' = s.smartNotes
    /\ result' = s.result
    /\ thrown' = s.thrown
    /\ requests' = s.requests
    /\ wire' = s.wire
    /\ attempts' = s.attempts
    /\ dirs' = s.dirs
    /\ UNCHANGED <<params, env, abortedAt>>

Response(status, contentType, location, linkHeader, hasBody, chunks, feat) ==
    [status |-> status, contentType |-> contentType, location |-> location,
     linkHeader |-> linkHeader, hasBody |-> hasBody, chunks |-> chunks,
     feat |-> feat]

NoResponse == Response(0, NoContentType, NoLoc, <<>>, FALSE, <<>>, NoFeatures)

\* An exception in flight.
Exception(name, blockedUrl, reason, chain) ==
    [name |-> name, blockedUrl |-> blockedUrl, reason |-> reason,
     redirectChain |-> chain]

Thrown(name) == Exception(name, NoUrl, NoReason, <<>>)

NoCapture ==
    [headText |-> EmptyText, headTruncation |-> NoTruncation,
     totalCharacters |-> 0, rest |-> <<>>, dir |-> 0, keepTempDir |-> FALSE,
     bytesRead |-> 0, sampledText |-> EmptyText, probeLimitReached |-> FALSE,
     outcome |-> "none", error |-> Thrown(""), streamed |-> NoBodyStreamed,
     close |-> "none"]

Done(s, res) == [s EXCEPT !.pc = "done", !.result = res]

\* ------------------------------------------------------------------------
\* execute: the catch block
\* ------------------------------------------------------------------------

isAbortErrorByName(error, aborted) == error.name = "AbortError"

isAbortError(error, aborted) ==
    IF aborted THEN TRUE ELSE error.name = "AbortError"

\* A variant that reports every error that is not a cancellation as a
\* generic failure.
CatchResultGeneric(p, target, error, aborted) ==
    IF isAbortError(error, aborted)
    THEN createToolResult(p,
             ResultArgs(TRUE, target, target, <<target>>, 499, "Cancelled",
                        NoContentType, MessageBody("Request cancelled.", NoReason)))
    ELSE createToolResult(p,
             ResultArgs(TRUE, target, target, <<target>>, 500, "Request Failed",
                        NoContentType, MessageBody("transport error", NoReason)))

CatchResult(p, target, error, aborted) ==
    IF isAbortError(error, aborted)
    THEN createToolResult(p,
             ResultArgs(TRUE, target, target, <<target>>, 499, "Cancelled",
                        NoContentType, MessageBody("Request cancelled.", NoReason)))
    ELSE IF error.name = "RedirectBlockedError"
    THEN createToolResult(p,
             ResultArgs(TRUE, error.blockedUrl, error.blockedUrl,
                        <<target, error.blockedUrl>>, 403, "Forbidden",
                        NoContentType, MessageBody("blocked", error.reason)))
    ELSE IF error.name = "TooManyRedirectsError"
    THEN LET finalRedirectUrl ==
                 IF error.redirectChain = <<>> THEN target
                 ELSE error.redirectChain[Len(error.redirectChain)]
         IN createToolResult(p,
                ResultArgs(TRUE, finalRedirectUrl, finalRedirectUrl,
                           error.redirectChain, 508, "Loop Detected",
                           NoContentType, MessageBody("Too many redirects", NoReason)))
    ELSE createToolResult(p,
             ResultArgs(TRUE, target, target, <<target>>, 500, "Request Failed",
                        NoContentType, MessageBody("transport error", NoReason)))

Catch(s, error) ==
    Done([s EXCEPT !.thrown = error],
         CatchResult(params, s.targetUrl, error, s.signal))

\* ------------------------------------------------------------------------
\* fetchWithRedirects
\* ------------------------------------------------------------------------

\* fetch(currentUrl, {signal, redirect: "manual"}): with the signal already
\* aborted the call rejects and nothing is sent.
\* A variant in which fetch ignores the signal when it is called.
FetchCallUnchecked(s) ==
    [s EXCEPT !.pc = "inflight", !.requests = Append(@, s.currentUrl),
              !.wire = Append(@, params.preparedHeaders.requestHeaders)]

\* A variant that sends the caller's headers to the host of the target
\* only.
FetchCallSameHostHeaders(s) ==
    IF s.signal THEN Catch(s, Thrown("AbortError"))
    ELSE [s EXCEPT !.pc = "inflight", !.requests = Append(@, s.currentUrl),
                   !.wire = Append(@, IF s.currentUrl.host = s.targetUrl.host
                                      THEN params.preparedHeaders.requestHeaders
                                      ELSE <<>>)]

FetchCall(s) ==
    IF s.signal THEN Catch(s, Thrown("AbortError"))
    ELSE [s EXCEPT !.pc = "inflight", !.requests = Append(@, s.currentUrl),
                   !.wire = Append(@, params.preparedHeaders.requestHeaders)]

\* fetchAttempt calls fetchWithRedirects, which makes its first request.
BeginAttempt(s, kind, mode, url) ==
    FetchCall([s EXCEPT !.attempt = [kind |-> kind, mode |-> mode],
                        !.currentUrl = url,
                        !.redirectChain = <<url>>,
                        !.redirectCount = 0,
                        !.response = NoResponse,
                        !.cap = NoCapture])

HopBlockReasonSkipped(e, url) == NoReason

HopBlockReason(e, url) == getPrivateHostBlockReason(e, url.host)

\* The body of the redirect response is cancelled; then the hop is taken.
FollowRedirectLate(s) ==
    LET chain == Append(s.redirectChain, s.nextUrl)
        s1 == [s EXCEPT !.redirectChain = chain, !.currentUrl = s.nextUrl,
                        !.nextUrl = NoUrl]
    IN IF s.redirectCount >= MAX_REDIRECTS + 1
       THEN Catch(s1, Exception("TooManyRedirectsError", NoUrl, NoReason, chain))
       ELSE FetchCall([s1 EXCEPT !.redirectCount = s.redirectCount + 1])

FollowRedirectUntracked(s) ==
    LET s1 == [s EXCEPT !.currentUrl = s.nextUrl, !.nextUrl = NoUrl]
    IN IF s.redirectCount >= MAX_REDIRECTS
       THEN Catch(s1, Exception("TooManyRedirectsError", NoUrl, NoReason,
                                s.redirectChain))
       ELSE FetchCall([s1 EXCEPT !.redirectCount = s.redirectCount + 1])

FollowRedirect(s) ==
    LET chain == Append(s.redirectChain, s.nextUrl)
        s1 == [s EXCEPT !.redirectChain = chain, !.currentUrl = s.nextUrl,
                        !.nextUrl = NoUrl]
    IN IF s.redirectCount >= MAX_REDIRECTS
       THEN Catch(s1, Exception("TooManyRedirectsError", NoUrl, NoReason, chain))
       ELSE FetchCall([s1 EXCEPT !.redirectCount = s.redirectCount + 1])

\* ------------------------------------------------------------------------
\* execute: the smart strategy after each fetch attempt
\* ------------------------------------------------------------------------

CandidateBlockReason(e, url) == getPrivateHostBlockReason(e, url.host)

TargetBlockReason(e, url) == getPrivateHostBlockReason(e, url.host)

IsErrorStatus(status) == status < 200 \/ status >= 300

\* A variant that always fetches again.
FallbackAlwaysRefetch(s) ==
    BeginAttempt(s, "primary", params.mode, s.probeAttempt.finalUrl)

\* After the candidate loop: the probe is returned, or the final URL of the
\* probe is fetched again in the requested mode.
Fallback(s) ==
    IF ~s.probeAttempt.jsShellDetection.detected /\ params.mode = "probe"
    THEN LET notes == Append(s.smartNotes, Note("probe-useful", NoUrl))
         IN Done([s EXCEPT !.smartNotes = notes],
                 buildResultFromAttempt(params, s.probeAttempt,
                     IsErrorStatus(s.probeAttempt.status), FALSE,
                     s.alternateCandidates, NoUrl, notes))
    ELSE BeginAttempt(s, "primary", params.mode, s.probeAttempt.finalUrl)

\* The candidate loop from candidate i on, up to the next await.
RECURSIVE NextCandidate(_, _)
NextCandidate(s, i) ==
    IF i > Len(s.alternateCandidates) THEN Fallback(s)
    ELSE LET candidate == s.alternateCandidates[i]
             privateCandidateReason == CandidateBlockReason(env, candidate.url)
         IN IF privateCandidateReason.blocked
            THEN NextCandidate(
                     [s EXCEPT !.smartNotes =
                          Append(@, Note("skipped-private", candidate.url))],
                     i + 1)
            ELSE BeginAttempt([s EXCEPT !.candIdx = i], "candidate",
                              params.mode, candidate.url)

\* The record kept of a fetchAttempt that returned a: which call it was,
\* what it returned, the temp directory it created (0 if none), how much
\* of the body it read and how many requests had been sent when it returned.
AttemptRecord(s, a) ==
    [kind |-> s.attempt.kind, value |-> a, dir |-> s.cap.dir,
     read |-> s.cap.totalCharacters + s.cap.bytesRead,
     sent |-> Len(s.requests)]

\* What execute does with the result of a fetchAttempt.
AfterAttempt(s0, a) ==
    LET s == [s0 EXCEPT !.attempts = Append(@, AttemptRecord(s0, a))] IN
    IF s.attempt.kind = "direct"
    THEN IF a.kind = "unsupported-content"
         THEN Done(s, buildUnsupportedContentResult(params, a, <<>>, <<>>))
         ELSE Done(s, buildResultFromAttempt(params, a, IsErrorStatus(a.status),
                                             FALSE, <<>>, NoUrl, <<>>))
    ELSE IF s.attempt.kind = "probe"
    THEN IF a.kind = "unsupported-content"
         THEN LET notes == Append(s.smartNotes, Note("probe-non-text", NoUrl))
              IN Done([s EXCEPT !.smartNotes = notes],
                      buildUnsupportedContentResult(params, a, notes, <<>>))
         ELSE LET candidates ==
                      collectSmartCandidates(a.linkHeader, a.streamed.text,
                                             a.finalUrl, a.jsShellDetection.detected)
                  notes == Append(s.smartNotes,
                                  Note(IF Len(candidates) > 0 THEN "found"
                                       ELSE "none-found", NoUrl))
              IN NextCandidate([s EXCEPT !.probeAttempt = a,
                                         !.alternateCandidates = candidates,
                                         !.smartNotes = notes], 1)
    ELSE IF s.attempt.kind = "candidate"
    THEN LET candidate == s.alternateCandidates[s.candIdx]
         IN IF a.kind = "unsupported-content"
            THEN NextCandidate(
                     [s EXCEPT !.smartNotes =
                          Append(@, Note("alternate-unsupported", candidate.url))],
                     s.candIdx + 1)
            ELSE IF ~isUsefulSmartAlternate(a)
            THEN NextCandidate(
                     [s EXCEPT !.smartNotes =
                          Append(@, Note("alternate-not-useful", candidate.url))],
                     s.candIdx + 1)
            ELSE LET notes == Append(s.smartNotes, Note("using-alternate", candidate.url))
                 IN Done([s EXCEPT !.smartNotes = notes],
                         buildResultFromAttempt(params, a, FALSE, FALSE,
                             s.alternateCandidates, candidate.url, notes))
    ELSE \* the primary refetch
         IF a.kind = "unsupported-content"
         THEN Done(s, buildUnsupportedContentResult(params, a, s.smartNotes,
                                                    s.alternateCandidates))
         ELSE IF s.probeAttempt.jsShellDetection.detected /\ ~isUsefulSmartAlternate(a)
         THEN LET notes == Append(s.smartNotes, Note("still-js-heavy", NoUrl))
              IN Done([s EXCEPT !.smartNotes = notes],
                      buildResultFromAttempt(params, a, IsErrorStatus(a.status),
                          TRUE, s.alternateCandidates, NoUrl, notes))
         ELSE Done(s, buildResultFromAttempt(params, a, IsErrorStatus(a.status),
                          FALSE, s.alternateCandidates, NoUrl, s.smartNotes))

\* ------------------------------------------------------------------------
\* fetchAttempt, streamResponseText and probeResponseText
\* ------------------------------------------------------------------------

SuccessAttempt(s, streamed) ==
    Attempt("success", s.response.status, s.response.contentType,
            s.response.linkHeader, s.currentUrl, s.redirectChain, streamed,
            detectJsShell(s.response.contentType, streamed.text))

\* A variant that hands the response on as a text without a body.
UnsupportedAttemptAsText(s) == SuccessAttempt(s, NoBodyProbe)

UnsupportedAttempt(s) ==
    Attempt("unsupported-content", s.response.status, s.response.contentType,
            <<>>, s.currentUrl, s.redirectChain, NoBodyStreamed, NoDetection)

TempDir(exists, open, written) ==
    [exists |-> exists, open |-> open, written |-> written]

\* fetchWithRedirects has returned the response held in s.response.
HeadersReceived(s) ==
    IF ~isTextContentType(s.response.contentType)
    THEN [s EXCEPT !.pc = "cancelUnsupported"]
    ELSE IF s.attempt.mode = "probe"
    THEN IF ~s.response.hasBody
         THEN AfterAttempt(s, SuccessAttempt(s, NoBodyProbe))
         ELSE [s EXCEPT !.pc = "probing",
                        !.cap = [NoCapture EXCEPT !.rest = s.response.chunks]]
    ELSE IF ~s.response.hasBody
         THEN AfterAttempt(s, SuccessAttempt(s, NoBodyStreamed))
         ELSE [s EXCEPT !.pc = "creating",
                        !.cap = [NoCapture EXCEPT !.rest = s.response.chunks]]

\* streamResponseText: mkdtemp and open have resolved.
CaptureOpened(s) ==
    [s EXCEPT !.pc = "reading",
              !.cap.dir = Len(s.dirs) + 1,
              !.dirs = Append(@, TempDir(TRUE, TRUE, 0))]

\* streamResponseText: mkdtemp rejects, or it resolves and open rejects; the
\* error leaves streamResponseText before its try block is entered.
CaptureSetupThrow(s, made) ==
    Catch([s EXCEPT !.dirs = IF made THEN Append(@, TempDir(TRUE, FALSE, 0)) ELSE @],
          Thrown("Error"))

\* A response arrives for the request in flight.
OnResponse(s, r) ==
    IF r.status \in REDIRECT_STATUS_CODES /\ r.location.kind # "none"
    THEN IF r.location.kind = "invalid"
         THEN Catch(s, Thrown("TypeError"))
         ELSE LET next == ResolveUrl(r.location, s.currentUrl)
                  reason == HopBlockReason(env, next)
              IN [s EXCEPT !.response = r, !.nextUrl = next,
                           !.blockReason = reason,
                           !.pc = IF reason.blocked THEN "cancelBlocked"
                                  ELSE "cancelHop"]
    ELSE HeadersReceived([s EXCEPT !.response = r])

\* One turn of the read loop of streamResponseText: the chunk is written to
\* the temp file and appended to the head; at the end of the body the
\* streamed text is built and control passes to the finally block.
StreamStep(s) ==
    IF s.cap.rest = <<>>
    THEN LET streamed == buildStreamedText(s.cap.headText, s.cap.totalCharacters,
                                           params.maxChars, s.cap.dir,
                                           s.cap.headTruncation, s.response.feat)
         IN [s EXCEPT !.pc = "closing",
                      !.cap.outcome = "return",
                      !.cap.streamed = streamed,
                      !.cap.keepTempDir = streamed.truncated]
    ELSE LET chunkText == Head(s.cap.rest)
             next == appendChunkToHead(s.cap.headText, s.cap.headTruncation, chunkText)
         IN [s EXCEPT !.cap.rest = Tail(@),
                      !.cap.totalCharacters = @ + Chars(chunkText),
                      !.cap.headText = next.headText,
                      !.cap.headTruncation = next.headTruncation,
                      !.dirs[s.cap.dir].written = @ + Chars(chunkText)]

\* reader.read() or outputFile.write() rejects: the finally block runs with
\* keepTempDir still false.
StreamThrow(s, error) ==
    [s EXCEPT !.pc = "closing", !.cap.outcome = "throw", !.cap.error = error]

\* A variant in which the error of close leaves execute uncaught.
StreamCloseThrowEscapes(s) == [s EXCEPT !.pc = "rejected", !.thrown = Thrown("Error")]

\* outputFile.close() rejects in the finally block: its error replaces the
\* outcome of the try block and the temp directory is not removed.
StreamCloseThrow(s) == Catch([s EXCEPT !.cap.close = "rejected"], Thrown("Error"))

\* A variant that closes the file only when the try block returned.
StreamFinallyOnReturnOnly(s) ==
    IF s.cap.outcome = "throw" THEN Catch(s, s.cap.error)
    ELSE LET s1 == [s EXCEPT !.dirs[s.cap.dir].open = FALSE,
                             !.dirs[s.cap.dir].exists = s.cap.keepTempDir,
                             !.cap.close = "resolved"]
         IN AfterAttempt(s1, SuccessAttempt(s1, s.cap.streamed))

\* The finally block of streamResponseText, then the return or the rethrow.
StreamFinally(s) ==
    LET s1 == [s EXCEPT !.dirs[s.cap.dir].open = FALSE,
                        !.dirs[s.cap.dir].exists = s.cap.keepTempDir,
                        !.cap.close = "resolved"]
    IN IF s.cap.outcome = "throw" THEN Catch(s1, s.cap.error)
       ELSE AfterAttempt(s1, SuccessAttempt(s1, s.cap.streamed))

\* A variant that keeps the whole of every chunk it reads.
ProbeStepWholeChunk(s) ==
    IF s.cap.rest = <<>>
    THEN [s EXCEPT !.pc = "probeCancel", !.cap.outcome = "return"]
    ELSE LET value == Head(s.cap.rest)
         IN [s EXCEPT !.cap.rest = Tail(@),
                      !.cap.bytesRead = @ + Chars(value),
                      !.cap.sampledText = Concat(@, value),
                      !.cap.outcome = "return",
                      !.pc = IF s.cap.bytesRead + Chars(value)
                                 < DEFAULT_PROBE_MAX_BYTES
                             THEN "probing" ELSE "probeCancel"]

\* One turn of the read loop of probeResponseText.
ProbeStep(s) ==
    IF s.cap.rest = <<>>
    THEN [s EXCEPT !.pc = "probeCancel", !.cap.outcome = "return"]
    ELSE LET value == Head(s.cap.rest)
             remainingBytes == DEFAULT_PROBE_MAX_BYTES - s.cap.bytesRead
         IN IF Chars(value) <= remainingBytes
            THEN [s EXCEPT !.cap.rest = Tail(@),
                           !.cap.bytesRead = @ + Chars(value),
                           !.cap.sampledText = Concat(@, value),
                           !.cap.outcome = "return",
                           !.pc = IF s.cap.bytesRead + Chars(value)
                                      < DEFAULT_PROBE_MAX_BYTES
                                  THEN "probing" ELSE "probeCancel"]
            ELSE [s EXCEPT !.cap.rest = Tail(@),
                           !.cap.bytesRead = @ + remainingBytes,
                           !.cap.sampledText = Concat(@, Slice(value, remainingBytes)),
                           !.cap.probeLimitReached = TRUE,
                           !.cap.outcome = "return",
                           !.pc = "probeCancel"]

ProbeThrow(s, error) ==
    [s EXCEPT !.pc = "probeCancel", !.cap.outcome = "throw", !.cap.error = error]

\* reader.cancel() has settled: the probe text is built, or the error of
\* the read loop propagates.
ProbeFinally(s) ==
    IF s.cap.outcome = "throw" THEN Catch(s, s.cap.error)
    ELSE AfterAttempt(s, SuccessAttempt(s,
             buildProbeText(s.cap.sampledText, s.cap.bytesRead,
                            s.cap.probeLimitReached, params.maxChars,
                            DEFAULT_PROBE_MAX_BYTES, s.response.feat)))

\* ------------------------------------------------------------------------
\* execute, up to the first await
\* ------------------------------------------------------------------------

EarlyResult(p, target, status, statusText, body) ==
    createToolResult(p,
        ResultArgs(TRUE, target, target,
                   IF target = NoUrl THEN <<>> ELSE <<target>>,
                   status, statusText, NoContentType, body))

Start(s) ==
    IF s.signal
    THEN Done(s, EarlyResult(params, NoUrl, 499, "Cancelled",
                     MessageBody("Request cancelled before execution.", NoReason)))
    ELSE LET n == normalizeUrl(params.url) IN
         IF ~n.ok
         THEN Done(s, EarlyResult(params, NoUrl, 400, "Bad Request",
                                  MessageBody(n.error, NoReason)))
         ELSE LET reason == TargetBlockReason(env, n.url)
                  s1 == [s EXCEPT !.targetUrl = n.url]
              IN IF reason.blocked
                 THEN Done(s1, EarlyResult(params, n.url, 403, "Forbidden",
                                           MessageBody("blocked", reason)))
                 ELSE IF params.strategy = "direct"
                 THEN BeginAttempt(s1, "direct", params.mode, n.url)
                 ELSE BeginAttempt([s1 EXCEPT !.smartNotes = <<Note("probe", NoUrl)>>],
                                   "probe", "probe", n.url)

\* ------------------------------------------------------------------------
\* The inputs and the servers of the model
\* ------------------------------------------------------------------------

DEFAULT_MAX_CHARS == 12

ExampleHost == DnsHost(<<"example", "com">>)
DocsHost == DnsHost(<<"docs", "example", "com">>)
CdnHost == DnsHost(<<"cdn", "example", "net">>)
AppHost == DnsHost(<<"app", "example", "org">>)
BlogHost == DnsHost(<<"blog", "example", "org">>)
Loopback == V4Host(127, 0, 0, 1)
PrivateHosts ==
    {Loopback, V4Host(10, 0, 0, 5), V4Host(192, 168, 1, 1),
     V6Host(<<0, 0, 0, 0, 0, 0, 0, 1>>)}

\* IPv6 literals around the edges of the ranges of the guard: "::",
\* fe80::1, fe81::1, febf::1, fec0::1, fbff::1, fc00::1, fdff::1, fe00::1,
\* ::ffff:10.0.0.1, ::ffff:8.8.8.8, ::ffff:1:2:3, 0:0:ffff::1:1 and
\* 2001:db8::1.
V6Targets ==
    {V6Host(<<0, 0, 0, 0, 0, 0, 0, 0>>),
     V6Host(<<65152, 0, 0, 0, 0, 0, 0, 1>>),
     V6Host(<<65153, 0, 0, 0, 0, 0, 0, 1>>),
     V6Host(<<65215, 0, 0, 0, 0, 0, 0, 1>>),
     V6Host(<<65216, 0, 0, 0, 0, 0, 0, 1>>),
     V6Host(<<64511, 0, 0, 0, 0, 0, 0, 1>>),
     V6Host(<<64512, 0, 0, 0, 0, 0, 0, 1>>),
     V6Host(<<65023, 0, 0, 0, 0, 0, 0, 1>>),
     V6Host(<<65024, 0, 0, 0, 0, 0, 0, 1>>),
     V6Host(<<0, 0, 0, 0, 0, 65535, 2560, 1>>),
     V6Host(<<0, 0, 0, 0, 0, 65535, 2056, 2056>>),
     V6Host(<<0, 0, 0, 0, 65535, 1, 2, 3>>),
     V6Host(<<0, 0, 65535, 0, 0, 0, 1, 1>>),
     V6Host(<<8193, 3512, 0, 0, 0, 0, 0, 1>>)}

Envs ==
    {Unset, <<"1">>, <<"0">>, <<"y", "e", "s">>, <<" ", "T", "R", "U", "E", " ">>}

Modes == {"full", "probe"}
Strategies == {"direct", "smart"}
User == <<"u", "s", "e", "r">>
MyUser == <<"m", "y", "_", "u", "s", "e", "r">>

Params(url, mode, strategy, maxChars) ==
    [url |-> url, mode |-> mode, strategy |-> strategy, maxChars |-> maxChars,
     accept |-> NoAccept, headers |-> <<>>,
     preparedHeaders |-> prepareRequestHeaders(NoAccept, <<>>)]

\* The invocations of the model: a public site under every mode, strategy
\* and character cap; inputs with credentials; private targets under every
\* value of the override variable; inputs that normalizeUrl rejects.
\* Custom header records and Accept overrides of the caller.
CredentialHeaders ==
    <<Header(<<"A", "u", "t", "h", "o", "r", "i", "z", "a", "t", "i", "o", "n">>, "Bearer abc"),
      Header(<<"X", "-", "I", "d">>, "7"),
      Header(<<"T", "E">>, "trailers"),
      Header(<<"C", "O", "O", "K", "I", "E">>, "sid=1")>>
ProxyHeaders ==
    <<Header(<<"P", "r", "o", "x", "y", "-", "A", "u", "t", "h", "o", "r", "i", "z", "a", "t", "i", "o", "n">>, "Basic xyz"),
      Header(<<"a", "c", "c", "e", "p", "t", "-", "e", "n", "c", "o", "d", "i", "n", "g">>, "gzip"),
      Header(<<"X", "-", "A", "u", "t", "h", "-", "T", "o", "k", "e", "n">>, "abc"),
      Header(<<"a", "c", "c", "e", "p", "t">>, "text/plain")>>
PaddedHeaders ==
    <<Header(<<" ", "H", "o", "s", "t", " ">>, "evil.example"),
      Header(<<"C", "O", "N", "N", "E", "C", "T", "I", "O", "N">>, "Upgrade"),
      Header(<<" ", " ", "x", "-", "S", "e", "s", "s", "i", "o", "n", "-", "I", "d">>, "s1"),
      Header(<<"X", "-", "A", "p", "i", "-", "K", "e", "y", " ">>, "k1"),
      Header(<<" ">>, "nothing")>>
HeaderRecords == {CredentialHeaders, ProxyHeaders, PaddedHeaders}
Accepts == {NoAccept, AcceptParam("application/json", FALSE), AcceptParam("", TRUE)}

WithHeaders(p, accept, headers) ==
    [p EXCEPT !.accept = accept, !.headers = headers,
              !.preparedHeaders = prepareRequestHeaders(accept, headers)]

Invocations ==
    {[params |-> Params(RawUrl("url", FALSE, "https", <<>>, AppHost, ""),
                        "full", "direct", DEFAULT_MAX_CHARS),
      env |-> Unset]}
    \cup
    {[params |-> Params(RawUrl("url", FALSE, "https", <<>>, BlogHost, ""),
                        m, "smart", DEFAULT_MAX_CHARS),
      env |-> Unset] : m \in Modes}
    \cup
    {[params |-> WithHeaders(Params(RawUrl("url", FALSE, "https", <<>>, CdnHost, ""),
                                    "full", st, DEFAULT_MAX_CHARS), a, h),
      env |-> Unset] :
        st \in Strategies, a \in Accepts, h \in HeaderRecords}
    \cup
    {[params |-> Params(RawUrl("url", FALSE, "https", <<>>, ExampleHost, ""), m, st, mc),
      env |-> Unset] :
        m \in Modes, st \in Strategies, mc \in {MIN_MAX_CHARS, DEFAULT_MAX_CHARS}}
    \cup
    {[params |-> Params(u, m, st, DEFAULT_MAX_CHARS), env |-> Unset] :
        u \in {RawUrl("url", FALSE, "https", User, DocsHost, "/private"),
               RawUrl("url", FALSE, "", MyUser, DocsHost, "/private"),
               RawUrl("url", TRUE, "", MyUser, DocsHost, "/private"),
               RawUrl("url", FALSE, "", User, DocsHost, "/private")},
        m \in Modes, st \in Strategies}
    \cup
    {[params |-> Params(RawUrl("url", FALSE, "http", <<>>, h, ""), "full", "direct",
                        DEFAULT_MAX_CHARS),
      env |-> e] : h \in PrivateHosts, e \in Envs}
    \cup
    {[params |-> Params(RawUrl("url", FALSE, "http", <<>>, h, ""), "full", "direct",
                        DEFAULT_MAX_CHARS),
      env |-> Unset] : h \in V6Targets}
    \cup
    {[params |-> Params(u, "full", "direct", DEFAULT_MAX_CHARS), env |-> Unset] :
        u \in {RawUrl("empty", TRUE, "", <<>>, NoHost, ""),
               RawUrl("unparseable", FALSE, "https", <<>>, NoHost, ""),
               RawUrl("url", FALSE, "ftp", <<>>, ExampleHost, "/file")}}

\* Bodies, as the chunks the reader delivers.
Line(n) == <<n>>
Lines(k) == [i \in 1..k |-> 1]
SmallBody == <<Line(2)>>
ManyLinesBody == <<Lines(2), Lines(DEFAULT_MAX_LINES)>>
LongLineBody == <<Line(DEFAULT_MAX_BYTES - 1), Line(2)>>
WideBody == <<Line(MIN_MAX_CHARS + 1)>>
\* Bodies that go on after the chunk that exceeds the line cap or the
\* byte cap.
TrailingLinesBody == <<Lines(2), Lines(DEFAULT_MAX_LINES), Line(2), Lines(2)>>
TrailingBytesBody == <<Line(DEFAULT_MAX_BYTES - 1), Line(2), Lines(2)>>
\* A body whose first two chunks hold exactly the bytes a probe may read.
ExactProbeBody == <<Line(2), Line(DEFAULT_PROBE_MAX_BYTES - 2), Line(2)>>

\* An HTML page that needs JavaScript: an empty root container and a
\* "enable JavaScript" message around little visible text.
ShellFeatures(alts) == Features(1, 30, TRUE, TRUE, FALSE, FALSE, alts)
\* An HTML page with one signal only: many scripts around rich text.
RichFeatures == Features(5, LOW_VISIBLE_TEXT, FALSE, FALSE, FALSE, FALSE, <<>>)
PlainFeatures == Features(0, LOW_VISIBLE_TEXT + 1, FALSE, FALSE, FALSE, FALSE, <<>>)

MarkdownLink(loc) == LinkEntry(loc, TRUE, TRUE)

Ok(contentType, linkHeader, chunks, feat) ==
    Response(200, contentType, NoLoc, linkHeader, TRUE, chunks, feat)

Redirect(status, loc) ==
    Response(status, NoContentType, loc, <<>>, TRUE, <<>>, NoFeatures)

PageResponses ==
    {Ok(TextPlain, <<>>, SmallBody, PlainFeatures),
     Ok(TextPlain, <<>>, ManyLinesBody, PlainFeatures),
     Ok(TextPlain, <<>>, LongLineBody, PlainFeatures),
     Ok(TextPlain, <<>>, WideBody, PlainFeatures),
     Ok(TextPlain, <<>>, TrailingLinesBody, PlainFeatures),
     Ok(TextPlain, <<>>, TrailingBytesBody, PlainFeatures),
     Ok(ImagePng, <<>>, SmallBody, NoFeatures),
     Ok(TextHtml, <<>>, SmallBody, RichFeatures),
     Ok(TextHtml, <<MarkdownLink(RelLoc("/page.md"))>>, SmallBody, ShellFeatures(<<>>)),
     Ok(TextHtml, <<>>, SmallBody,
        ShellFeatures(<<MarkdownLink(AbsLoc(Url("http", FALSE, Loopback, "/page.md")))>>)),
     Response(200, TextPlain, NoLoc, <<>>, FALSE, <<>>, NoFeatures),
     Response(404, TextPlain, NoLoc, <<>>, TRUE, ManyLinesBody, PlainFeatures),
     Response(302, NoContentType, NoLoc, <<>>, FALSE, <<>>, NoFeatures)}

AlternateResponses ==
    {Ok(TextMarkdown, <<>>, SmallBody, PlainFeatures),
     Ok(TextMarkdown, <<>>, ManyLinesBody, PlainFeatures),
     Ok(ImagePng, <<>>, SmallBody, NoFeatures),
     Ok(TextHtml, <<>>, SmallBody, ShellFeatures(<<>>)),
     Response(404, TextPlain, NoLoc, <<>>, TRUE, ManyLinesBody, PlainFeatures)}

SimpleResponses == {Ok(TextPlain, <<>>, SmallBody, PlainFeatures)}

\* Pages of every kind for detectJsShell: script counts and visible text
\* lengths on both sides of the two thresholds, each marker present or not,
\* served as HTML (with and without a charset parameter), as XHTML and as
\* plain text.
ShellCandidates ==
    {Ok(ct, <<>>, SmallBody, Features(sc, v, r, j, h, FALSE, <<>>)) :
        ct \in {TextHtml, ContentType("text", "html", FALSE), TextPlain,
                ContentType("application", "xhtml+xml", FALSE)},
        sc \in {0, 1, 4, 5},
        v \in {0, 1, LOW_VISIBLE_TEXT - 1, LOW_VISIBLE_TEXT},
        r \in BOOLEAN, j \in BOOLEAN, h \in BOOLEAN}

\* A page that names "/page.md" in its Link header and "/page.md" and
\* "/alt.md" in its <link> tags, as a shell and as a readable page.
TwoAlternates ==
    <<MarkdownLink(RelLoc("/page.md")), MarkdownLink(RelLoc("/alt.md"))>>
BlogPages ==
    {Ok(TextHtml, <<MarkdownLink(RelLoc("/page.md"))>>, SmallBody,
        ShellFeatures(TwoAlternates)),
     Ok(TextHtml, <<MarkdownLink(RelLoc("/page.md"))>>, SmallBody,
        Features(0, LOW_VISIBLE_TEXT + 1, FALSE, FALSE, FALSE, FALSE, TwoAlternates))}

\* Alternates with an empty body, with a body of whitespace (short, and
\* longer than the line cap), with a readable body, and without a body.
BlogAlternates ==
    {Ok(TextMarkdown, <<>>, <<>>, NoFeatures),
     Ok(TextMarkdown, <<>>, SmallBody, NoFeatures),
     Ok(TextMarkdown, <<>>, ManyLinesBody, NoFeatures),
     Ok(TextMarkdown, <<>>, SmallBody, PlainFeatures),
     Response(200, TextMarkdown, NoLoc, <<>>, FALSE, <<>>, NoFeatures)}

NotFound == Response(404, TextPlain, NoLoc, <<>>, TRUE, SmallBody, PlainFeatures)

ToLoopback == Redirect(302, AbsLoc(Url("http", FALSE, Loopback, "/")))

\* The front page of the CDN: a plain page, a redirect to another origin,
\* and a shell that names an alternate on another host.
CdnPages ==
    SimpleResponses
    \cup {Redirect(302, AbsLoc(Url("https", FALSE, DocsHost, "/c"))),
          Ok(TextHtml,
             <<MarkdownLink(AbsLoc(Url("https", FALSE, DocsHost, "/page.md")))>>,
             SmallBody, ShellFeatures(<<>>))}

\* What a server may answer to a request for url.  "/" and "/a" are pages,
\* "/page.md" and "/wp-json" alternates; "/" redirects to "/a", "/a" and
\* the alternates to "/b", and "/b" to itself, so that a redirect chain of
\* any length exists.
ServerResponses(url) ==
    IF url.host = ExampleHost
    THEN CASE url.path = "/" ->
                  PageResponses
                  \cup {Redirect(302, RelLoc("/a")), ToLoopback,
                        Redirect(301, AbsLoc(Url("https", FALSE, CdnHost, "/"))),
                        Redirect(307, BadLoc)}
           [] url.path = "/a" ->
                  PageResponses \cup {Redirect(308, RelLoc("/b")), ToLoopback}
           [] url.path \in {"/page.md", "/wp-json"} ->
                  AlternateResponses \cup {Redirect(302, RelLoc("/b")), ToLoopback}
           [] OTHER ->
                  SimpleResponses \cup {Redirect(303, RelLoc("/b"))}
    ELSE IF url.host = DocsHost
    THEN CASE url.path = "/private" ->
                  {Ok(TextPlain, <<>>, SmallBody, PlainFeatures),
                   Ok(TextHtml, <<MarkdownLink(RelLoc("/page.md"))>>, SmallBody,
                      ShellFeatures(<<>>)),
                   Redirect(302, RelLoc("/a")), ToLoopback}
           [] url.path = "/page.md" ->
                  {Ok(TextMarkdown, <<>>, SmallBody, PlainFeatures),
                   Ok(TextMarkdown, <<>>, ExactProbeBody, PlainFeatures), NotFound}
           [] OTHER -> SimpleResponses \cup {NotFound}
    ELSE IF url.host = AppHost THEN ShellCandidates
    ELSE IF url.host = BlogHost
    THEN IF url.path = "/" THEN BlogPages ELSE BlogAlternates
    ELSE IF url.host = CdnHost /\ url.path = "/" THEN CdnPages
    ELSE SimpleResponses

\* ------------------------------------------------------------------------
\* The state machine
\* ------------------------------------------------------------------------

Init ==
    /\ \E inv \in Invocations : params = inv.params /\ env = inv.env
    /\ signal = FALSE
    /\ abortedAt = ""
    /\ pc = "start"
    /\ targetUrl = NoUrl
    /\ currentUrl = NoUrl
    /\ redirectChain = <<>>
    /\ redirectCount = 0
    /\ response = NoResponse
    /\ nextUrl = NoUrl
    /\ blockReason = NoReason
    /\ attempt = [kind |-> "none", mode |-> "none"]
    /\ cap = NoCapture
    /\ probeAttempt = NoAttempt
    /\ alternateCandidates = <<>>
    /\ candIdx = 0
    /\ smartNotes = <<>>
    /\ result = NoResult
    /\ thrown = Thrown("")
    /\ requests = <<>>
    /\ wire = <<>>
    /\ attempts = <<>>
    /\ dirs = <<>>

\* The caller aborts the signal.
Abort ==
    /\ pc # "done"
    /\ ~signal
    /\ signal' = TRUE
    /\ abortedAt' = pc
    /\ UNCHANGED <<params, env, pc, targetUrl, currentUrl, redirectChain,
                   redirectCount, response, nextUrl, blockReason, attempt, cap,
                   probeAttempt, alternateCandidates, candIdx, smartNotes, result,
                   thrown, requests, wire, attempts, dirs>>

\* execute is called and runs to its first await.
Execute ==
    /\ pc = "start"
    /\ Install(Start(Cur))

\* fetch resolves with a response.
FetchResponds ==
    /\ pc = "inflight"
    /\ ~signal
    /\ \E r \in ServerResponses(currentUrl) : Install(OnResponse(Cur, r))

\* fetch rejects: with the abort reason once the signal is aborted, with a
\* network error otherwise.
FetchRejects ==
    /\ pc = "inflight"
    /\ Install(Catch(Cur, Thrown(IF signal THEN "AbortError" ELSE "TypeError")))

\* The body of a redirect response is cancelled and the hop is followed.
RedirectFollowed ==
    /\ pc = "cancelHop"
    /\ Install(FollowRedirect(Cur))

\* The body of a redirect to a blocked host is cancelled and
\* RedirectBlockedError is thrown.
RedirectBlocked ==
    /\ pc = "cancelBlocked"
    /\ Install(Catch(Cur, Exception("RedirectBlockedError", nextUrl, blockReason, <<>>)))

\* The body of a response of unsupported content type is cancelled.
UnsupportedCancelled ==
    /\ pc = "cancelUnsupported"
    /\ Install(AfterAttempt(Cur, UnsupportedAttempt(Cur)))

\* mkdtemp and open resolve in streamResponseText.
TempFileOpened ==
    /\ pc = "creating"
    /\ Install(CaptureOpened(Cur))

\* mkdtemp rejects, or open rejects after mkdtemp made the directory.
TempFileFails ==
    /\ pc = "creating"
    /\ \E made \in BOOLEAN : Install(CaptureSetupThrow(Cur, made))

\* outputFile.write() rejects for a chunk that was read.
TempFileWriteFails ==
    /\ pc = "reading"
    /\ cap.rest # <<>>
    /\ Install(StreamThrow(Cur, Thrown("Error")))

\* outputFile.close() rejects.
TempFileCloseFails ==
    /\ pc = "closing"
    /\ Install(StreamCloseThrow(Cur))

\* reader.read() resolves in streamResponseText; once the signal is aborted
\* the body stream is errored and it can only reject.
StreamRead ==
    /\ pc = "reading"
    /\ ~signal
    /\ Install(StreamStep(Cur))

\* reader.read() rejects in streamResponseText.
StreamReadFails ==
    /\ pc = "reading"
    /\ Install(StreamThrow(Cur, Thrown(IF signal THEN "AbortError" ELSE "TypeError")))

\* The temp file is closed and, unless kept, the temp directory removed.
StreamClosed ==
    /\ pc = "closing"
    /\ Install(StreamFinally(Cur))

\* reader.read() resolves in probeResponseText.
ProbeRead ==
    /\ pc = "probing"
    /\ ~signal
    /\ Install(ProbeStep(Cur))

\* reader.read() rejects in probeResponseText.
ProbeReadFails ==
    /\ pc = "probing"
    /\ Install(ProbeThrow(Cur, Thrown(IF signal THEN "AbortError" ELSE "TypeError")))

\* reader.cancel() settles in probeResponseText.
ProbeCancelled ==
    /\ pc = "probeCancel"
    /\ Install(ProbeFinally(Cur))

Next ==
    \/ Abort
    \/ Execute
    \/ FetchResponds
    \/ FetchRejects
    \/ RedirectFollowed
    \/ RedirectBlocked
    \/ UnsupportedCancelled
    \/ TempFileOpened
    \/ TempFileFails
    \/ TempFileWriteFails
    \/ TempFileCloseFails
    \/ StreamRead
    \/ StreamReadFails
    \/ StreamClosed
    \/ ProbeRead
    \/ ProbeReadFails
    \/ ProbeCancelled

Spec == Init /\ [][Next]_vars

\* ------------------------------------------------------------------------
\* Properties
\* ------------------------------------------------------------------------

Returned == pc = "done"

Details == result.details

OverrideDisabled == ~shouldAllowPrivateHosts(env)

\* The hosts the guard blocks while the override is off.
GuardBlocks(host) == getPrivateHostBlockReason(Unset, host).blocked

HasNote(kind) == \E i \in 1..Len(smartNotes) : smartNotes[i].kind = kind

\* C1: with the private-host override disabled, no request is ever issued
\* to a URL whose host the guard blocks, be it the initial target, the
\* target of a redirect hop or a smart candidate.
NoRequestToBlockedHost ==
    OverrideDisabled =>
        \A i \in 1..Len(requests) : ~GuardBlocks(requests[i].host)

\* A smart invocation that skipped a private candidate and was then stopped
\* at a redirect to a private host.
GuardStoppedHopAndCandidate ==
    /\ Returned
    /\ OverrideDisabled
    /\ HasNote("skipped-private")
    /\ blockReason.blocked
    /\ Len(requests) >= 2
    /\ Details.status = 403

\* The guard blocked the initial target, or the target of the last hop.
TargetBlocked == targetUrl # NoUrl /\ TargetBlockReason(env, targetUrl).blocked
HopBlocked == blockReason.blocked
BlockedUrl == IF TargetBlocked THEN targetUrl ELSE nextUrl

NotRequested(url) == \A i \in 1..Len(requests) : requests[i] # url

ForbiddenResult(url) ==
    /\ result.isError
    /\ Details.status = 403
    /\ result.text.body.reason.blocked
    /\ result.text.body.reason.host = normalizeHostname(url.host)

\* C2 as stated: when the guard blocks the initial target or a redirect hop
\* the invocation ends with isError, status 403 and the reason in the text;
\* a blocked initial target issues no request; the blocked URL is never
\* requested.
BlockedGives403 ==
    Returned /\ (TargetBlocked \/ HopBlocked) =>
        /\ ForbiddenResult(BlockedUrl)
        /\ TargetBlocked => requests = <<>>
        /\ NotRequested(BlockedUrl)

\* C2, amended: as above, except that a blocked redirect hop ends with the
\* cancellation result (status 499) when the signal is aborted by the time
\* the error is handled.
BlockedGives403UnlessAborted ==
    Returned /\ (TargetBlocked \/ HopBlocked) =>
        /\ result.isError
        /\ IF HopBlocked /\ signal
           THEN Details.status = 499 /\ Details.statusText = "Cancelled"
           ELSE ForbiddenResult(BlockedUrl)
        /\ TargetBlocked => requests = <<>>
        /\ NotRequested(BlockedUrl)

\* A redirect hop to a private host, blocked after two requests.
HopBlockedAfterRedirect ==
    /\ Returned
    /\ HopBlocked
    /\ ~signal
    /\ redirectCount = 1
    /\ ForbiddenResult(nextUrl)

PrivateTarget == targetUrl # NoUrl /\ targetUrl.host \in PrivateHosts

GuardBlockedTarget == Details.status = 403 /\ requests = <<>>

OverrideValues == {<<"1">>, <<"t", "r", "u", "e">>, <<"y", "e", "s">>}

\* C3 as stated: a private host (127.0.0.0/8, 10.0.0.0/8, 192.168.0.0/16,
\* ::1) is blocked unless the override variable is exactly 1, true or yes.
OverrideOnlyWhenExact ==
    Returned /\ PrivateTarget =>
        (GuardBlockedTarget <=> env \notin OverrideValues)

\* C3, amended: a private host is blocked unless the value of the override
\* variable, with surrounding whitespace removed and in lower case, is 1,
\* true or yes; any other value, and the unset variable, keep the block.
OverrideOnlyWhenNormalizedValue ==
    Returned /\ PrivateTarget =>
        (GuardBlockedTarget <=>
            (env = Unset \/ ToLowerCase(Trim(env)) \notin OverrideValues))

\* A private target blocked although the variable is set (to 0).
PrivateBlockedWithOtherValue ==
    /\ Returned
    /\ PrivateTarget
    /\ env = <<"0">>
    /\ GuardBlockedTarget

TooManyHops == Len(redirectChain) > MAX_REDIRECTS + 1

\* The requests of an invocation are bounded: at most MAX_REDIRECTS + 1 in
\* each fetch attempt (the probe, each candidate, the primary fetch).
BoundedRequests ==
    /\ redirectCount <= MAX_REDIRECTS
    /\ Len(redirectChain) <= redirectCount + 2
    /\ Len(requests) <= (MAX_REDIRECTS + 1) * (Len(alternateCandidates) + 2)

\* C4 as stated: a server that keeps redirecting never makes an attempt
\* loop; once the chain exceeds 10 hops the invocation ends with status 508
\* and isError, after a bounded number of requests.
RedirectLoopGives508 ==
    /\ BoundedRequests
    /\ Returned /\ TooManyHops => result.isError /\ Details.status = 508

\* C4, amended: as above, except that the result is the cancellation
\* result (status 499) when the signal is aborted by the time the chain
\* exceeds 10 hops.
RedirectLoopGives508UnlessAborted ==
    /\ BoundedRequests
    /\ Returned /\ TooManyHops =>
           /\ result.isError
           /\ Details.status = IF signal THEN 499 ELSE 508

\* A chain that exceeded the cap, ended with status 508 after 11 requests.
LoopEndedWith508 ==
    /\ Returned
    /\ TooManyHops
    /\ Details.status = 508
    /\ Len(requests) = MAX_REDIRECTS + 1

\* C5 as stated: the redirect chain of every result, the too-many-redirects
\* result included, holds at most 10 hops, that is 11 URLs.
ChainAtMostTenHops ==
    Returned => Len(Details.redirectChain) <= MAX_REDIRECTS + 1

\* C5, amended: the redirect chain of every result holds at most 11 URLs,
\* except that of the too-many-redirects result (status 508), which holds
\* 12: the 11 URLs requested and the target of the redirect not followed.
ChainAtMostTenHopsUnless508 ==
    Returned =>
        IF Details.status = 508
        THEN Len(Details.redirectChain) = MAX_REDIRECTS + 2
        ELSE Len(Details.redirectChain) <= MAX_REDIRECTS + 1

\* A successful result after exactly 10 redirects, with 11 URLs.
ChainOfTenHopsReturned ==
    /\ Returned
    /\ ~result.isError
    /\ Len(Details.redirectChain) = MAX_REDIRECTS + 1

\* A target was resolved and passed the guard.
TargetAccepted == targetUrl # NoUrl /\ ~TargetBlocked

Last(seq) == seq[Len(seq)]

\* C6: in every result of an invocation that resolved its target, the
\* redirect chain begins with the resolved target URL and ends with
\* finalUrl.
ChainFromTargetToFinalUrl ==
    Returned /\ targetUrl # NoUrl =>
        /\ Details.redirectChain # <<>>
        /\ Details.redirectChain[1] = redactUrlCredentials(targetUrl)
        /\ Last(Details.redirectChain) = Details.finalUrl

\* The direct strategy received a 2xx textual response and captured its
\* body without an error.
DirectTextReceived ==
    /\ Returned
    /\ params.strategy = "direct"
    /\ TargetAccepted
    /\ Is2xx(response.status)
    /\ isTextContentType(response.contentType)
    /\ thrown.name = ""

\* C7: in the direct strategy, k redirects (0 <= k <= 10) followed by a 2xx
\* textual response give a success after exactly k + 1 requests; the
\* redirect chain lists the k + 1 URLs requested, in order, and finalUrl is
\* the last of them.
DirectRedirectsThenSuccess ==
    DirectTextReceived =>
        /\ ~result.isError
        /\ redirectCount <= MAX_REDIRECTS
        /\ Len(requests) = redirectCount + 1
        /\ requests[1] = targetUrl
        /\ Details.redirectChain = RedactAll(requests)
        /\ Details.finalUrl = redactUrlCredentials(Last(requests))
        /\ Details.status = response.status

\* A direct success after 10 redirects and 11 requests.
DirectSuccessAfterTenRedirects ==
    /\ DirectTextReceived
    /\ redirectCount = MAX_REDIRECTS
    /\ Len(requests) = MAX_REDIRECTS + 1
    /\ ~result.isError

AnyTruncationFlag ==
    Details.truncatedByLines \/ Details.truncatedByBytes \/ Details.truncatedByMaxChars

\* The result carries a probe capture.
ProbeResult == Details.probeByteLimit # -1

OnlyReturnedTempDirRemains ==
    Returned =>
        \A d \in 1..Len(dirs) :
            dirs[d].exists => Details.truncated /\ Details.fullOutputPath = d

\* C10: when the raw input carries credentials and is accepted, they appear
\* neither in resolvedUrl, nor in requestedUrl, nor in the output text (its
\* URL line and the URLs quoted in its body).
CredentialsNeverShown ==
    Returned /\ params.url.cred = "clear" /\ normalizeUrl(params.url).ok =>
        /\ ~Details.resolvedUrl.cred
        /\ Details.requestedUrl.cred # "clear"
        /\ ~result.text.url.cred
        /\ \A i \in 1..Len(result.text.body.notes) :
               ~result.text.body.notes[i].url.cred

NoCredentialsIn(urls) == \A i \in 1..Len(urls) : ~urls[i].cred

\* C11: every URL in details has its credentials stripped: requestedUrl,
\* resolvedUrl, finalUrl, the entries of redirectChain and of
\* alternateCandidates, alternateUrlUsed and the URLs quoted in smartNotes.
DetailsUrlsRedacted ==
    Returned =>
        /\ Details.requestedUrl.cred # "clear"
        /\ ~Details.resolvedUrl.cred
        /\ ~Details.finalUrl.cred
        /\ NoCredentialsIn(Details.redirectChain)
        /\ NoCredentialsIn(Details.alternateCandidates)
        /\ ~Details.alternateUrlUsed.cred
        /\ \A i \in 1..Len(Details.smartNotes) : ~Details.smartNotes[i].url.cred

HasHeader(headers, name) == \E i \in 1..Len(headers) : headers[i].name = name
HeaderValue(headers, name) ==
    headers[CHOOSE i \in 1..Len(headers) : headers[i].name = name].value
Dropped(name) ==
    \/ normalizeHeaderName(name) \in HOP_BY_HOP_REQUEST_HEADERS
    \/ normalizeHeaderName(name) \in RESERVED_REQUEST_HEADERS
\* The caller's headers that belong to the outbound header set.
Forwarded(h) ==
    /\ Trim(h.name) # <<>>
    /\ normalizeHeaderName(h.name) # normalizeHeaderName(AcceptName)
    /\ ~Dropped(h.name)

\* C12: in every result, each header of the outbound set whose name is
\* sensitive shows the redaction marker in details.requestHeaders, and every
\* request of the invocation carried the caller's real value for it; no entry
\* of details.requestHeaders with a sensitive name shows anything else.
SensitiveHeadersRedacted ==
    Returned =>
        /\ \A j \in 1..Len(params.headers) :
              LET h == params.headers[j] IN
              (Forwarded(h) /\ isSensitiveHeader(h.name)) =>
                  /\ HasHeader(Details.requestHeaders, Trim(h.name))
                  /\ HeaderValue(Details.requestHeaders, Trim(h.name))
                         = REDACTED_CREDENTIALS
                  /\ \A k \in 1..Len(wire) :
                        /\ HasHeader(wire[k], Trim(h.name))
                        /\ HeaderValue(wire[k], Trim(h.name)) = h.value
        /\ \A i \in 1..Len(Details.requestHeaders) :
              isSensitiveHeader(Details.requestHeaders[i].name) =>
                  Details.requestHeaders[i].value = REDACTED_CREDENTIALS

\* A result after two requests that carried the session header in clear
\* while details shows the marker for it.
SessionHeaderSentAndRedacted ==
    /\ Returned
    /\ Len(wire) >= 2
    /\ HasHeader(wire[2], <<"x", "-", "S", "e", "s", "s", "i", "o", "n", "-", "I", "d">>)
    /\ HeaderValue(wire[2], <<"x", "-", "S", "e", "s", "s", "i", "o", "n", "-", "I", "d">>) = "s1"
    /\ HeaderValue(Details.requestHeaders, <<"x", "-", "S", "e", "s", "s", "i", "o", "n", "-", "I", "d">>) = REDACTED_CREDENTIALS

InSeq(x, seq) == \E i \in 1..Len(seq) : seq[i] = x
SentIdentityOnly(headers) ==
    /\ HasHeader(headers, AcceptEncodingName)
    /\ \A i \in 1..Len(headers) :
          normalizeHeaderName(headers[i].name) = normalizeHeaderName(AcceptEncodingName)
              => headers[i] = Header(AcceptEncodingName, DEFAULT_ACCEPT_ENCODING)

\* C13: in every result, each header of the caller whose name is hop-by-hop
\* or reserved, whatever its case, is listed by name in
\* details.blockedRequestHeaders and no request of the invocation carried it
\* (the only Accept-Encoding ever sent is the tool's own `identity`).
BlockedHeadersDropped ==
    Returned =>
        /\ \A j \in 1..Len(params.headers) :
              LET h == params.headers[j] IN
              Dropped(h.name) =>
                  /\ InSeq(Trim(h.name), Details.blockedRequestHeaders)
                  /\ \A k \in 1..Len(wire) : \A i \in 1..Len(wire[k]) :
                        normalizeHeaderName(wire[k][i].name) = normalizeHeaderName(h.name)
                            => wire[k][i] = Header(AcceptEncodingName,
                                                   DEFAULT_ACCEPT_ENCODING)
        /\ \A k \in 1..Len(wire) : SentIdentityOnly(wire[k])

\* A result after a request made for a caller who passed ` Host ` and
\* CONNECTION: both are listed as blocked and the request carried neither.
HostAndConnectionBlocked ==
    /\ Returned
    /\ params.headers = PaddedHeaders
    /\ Len(wire) >= 1
    /\ Details.blockedRequestHeaders = <<<<"H", "o", "s", "t">>, <<"C", "O", "N", "N", "E", "C", "T", "I", "O", "N">>>>
    /\ ~HasHeader(wire[1], <<"H", "o", "s", "t">>)
    /\ ~HasHeader(wire[1], <<"C", "O", "N", "N", "E", "C", "T", "I", "O", "N">>)

Unsupported(i) == attempts[i].value.kind = "unsupported-content"
BodyUntouched(i) == attempts[i].dir = 0 /\ attempts[i].read = 0
ErrorWithStatusOf(a) ==
    /\ result.isError
    /\ Details.status = a.status
    /\ Details.contentType = a.contentType

\* C14 as stated: in every result, each fetchAttempt of the invocation whose
\* response had a content type off the textual allowlist left the result an
\* error carrying the status of that response, and read nothing of its body
\* and created no temp directory for it.
UnsupportedAlwaysError ==
    Returned =>
        \A i \in 1..Len(attempts) :
            Unsupported(i) =>
                /\ ~isTextContentType(attempts[i].value.contentType)
                /\ ErrorWithStatusOf(attempts[i].value)
                /\ BodyUntouched(i)

\* C14: a response off the allowlist never has its body read nor a temp
\* directory created; when it answers the direct fetch, the smart probe or
\* the primary refetch it ends the invocation with an error result carrying
\* its status, and when it answers a smart alternate candidate that
\* candidate is skipped with a smart note and the invocation goes on.
UnsupportedErrorUnlessCandidate ==
    Returned =>
        \A i \in 1..Len(attempts) :
            Unsupported(i) =>
                /\ ~isTextContentType(attempts[i].value.contentType)
                /\ BodyUntouched(i)
                /\ IF attempts[i].kind = "candidate"
                   THEN \E n \in 1..Len(smartNotes) :
                           /\ smartNotes[n].kind = "alternate-unsupported"
                           /\ smartNotes[n].url = attempts[i].value.redirectChain[1]
                   ELSE i = Len(attempts) /\ ErrorWithStatusOf(attempts[i].value)

\* The primary refetch was answered with an image after the probe had read
\* text: the result is the error for that response.
PrimaryUnsupportedAfterProbe ==
    /\ Returned
    /\ Len(attempts) >= 2
    /\ attempts[Len(attempts)].kind = "primary"
    /\ Unsupported(Len(attempts))
    /\ attempts[1].read > 0
    /\ result.isError

CancelledResult ==
    /\ result.isError
    /\ Details.status = 499
    /\ Details.statusText = "Cancelled"
GenericFailure == Details.status = 500 /\ Details.statusText = "Request Failed"

FinishingAwaits == {"cancelUnsupported", "closing", "probeCancel"}

NoRequestAfterAbort == [][signal => requests' = requests]_vars

\* Cancelled while a redirect response was being discarded: the invocation
\* ended with the hop it had resolved never requested.
HopNotIssuedAfterAbort ==
    /\ Returned
    /\ abortedAt = "cancelHop"
    /\ Len(redirectChain) = 2
    /\ requests = <<redirectChain[1]>>
    /\ redirectChain[2] # redirectChain[1]
    /\ CancelledResult

\* The awaits execute can be suspended at; at each of them a step of the
\* invocation is possible whatever the signal (the awaited promise settles).
Awaits ==
    {"start", "inflight", "cancelHop", "cancelBlocked", "cancelUnsupported",
     "creating", "reading", "closing", "probing", "probeCancel"}

\* The failures of an invocation: an error reached the catch block of
\* execute, execute returned before its first request, or the last
\* fetchAttempt returned unsupported content.
EndedEarly == requests = <<>> /\ thrown.name = ""
EndedUnsupported ==
    /\ thrown.name = ""
    /\ attempts # <<>>
    /\ Unsupported(Len(attempts))
    /\ attempts[Len(attempts)].kind # "candidate"
Failed == thrown.name # "" \/ EndedEarly \/ EndedUnsupported

LocalStatuses ==
    {<<400, "Bad Request">>, <<403, "Forbidden">>, <<499, "Cancelled">>,
     <<500, "Request Failed">>, <<508, "Loop Detected">>}

PopulatedError ==
    /\ result.isError
    /\ result.text.banner = "Web fetch failed"
    /\ Details.requestedUrl = redactRawUrlCredentials(params.url)
    /\ Details.mode = params.mode
    /\ Details.strategy = params.strategy
    /\ Details.acceptHeader # ""
    /\ Len(Details.requestHeaders) >= 2
    /\ IF EndedUnsupported
       THEN Details.status = attempts[Len(attempts)].value.status
       ELSE <<Details.status, Details.statusText>> \in LocalStatuses

\* C17: execute never rejects: it is suspended at one of its awaits or it
\* has returned a result, no error having escaped it, and after each failure
\* (invalid URL, blocked host, too many redirects, unsupported content,
\* cancellation, transport error, invalid Location, file-system error) that
\* result has isError=true and a details record with status and statusText.
ExecuteAlwaysReturns ==
    /\ pc \in Awaits \cup {"done"}
    /\ Returned => result # NoResult
    /\ (Returned /\ Failed) => PopulatedError

\* The close of the temp file failed after the whole body was written: the
\* result is the 500 failure.
CloseFailureReturned500 ==
    /\ Returned
    /\ ~signal
    /\ thrown = Thrown("Error")
    /\ \E d \in 1..Len(dirs) : dirs[d].open /\ dirs[d].written > 0
    /\ Details.status = 500
    /\ PopulatedError

\* The inputs of C18: an empty string, a string URL cannot parse, or a URL
\* with an explicit scheme other than http and https.
InvalidInput ==
    \/ params.url.shape \in {"empty", "unparseable"}
    \/ params.url.scheme \notin {"", "http", "https"}

\* C18 as stated: an empty, unparseable or non-HTTP(S) URL gives
\* isError=true with status 400 and no request is issued.
InvalidUrlGives400 ==
    (Returned /\ InvalidInput) =>
        /\ result.isError
        /\ Details.status = 400
        /\ requests = <<>>

\* C18: an empty, unparseable or non-HTTP(S) URL gives isError=true and no
\* request is issued; the status is 400 with statusText Bad Request unless
\* the signal was already aborted when execute was called, and 499 then.
InvalidUrlGives400UnlessAborted ==
    (Returned /\ InvalidInput) =>
        /\ result.isError
        /\ requests = <<>>
        /\ IF signal
           THEN CancelledResult
           ELSE Details.status = 400 /\ Details.statusText = "Bad Request"

\* An ftp URL was refused with 400 and the message for the scheme.
FtpUrlRefused ==
    /\ Returned
    /\ params.url.scheme = "ftp"
    /\ Details.status = 400
    /\ result.text.body = MessageBody("Unsupported URL scheme", NoReason)
    /\ requests = <<>>

\* "https://" followed by the input.
HttpsPrefixed(raw) ==
    Url("https", raw.user # <<>>, raw.host, IF raw.path = "" THEN "/" ELSE raw.path)

\* C19: of the invocations that reach the Resolver (the signal was not
\* aborted beforehand), each parseable input written without a scheme is
\* resolved as `https://` followed by the input, and each input with an
\* explicit scheme other than http and https is rejected as an unsupported
\* scheme, with no target resolved and nothing requested.
SchemeLessResolvedAsHttps ==
    (Returned /\ abortedAt # "start" /\ params.url.shape = "url") =>
        /\ params.url.scheme = "" => targetUrl = HttpsPrefixed(params.url)
        /\ params.url.scheme \notin {"", "http", "https"} =>
              /\ targetUrl = NoUrl
              /\ requests = <<>>
              /\ result.text.body = MessageBody("Unsupported URL scheme", NoReason)

IsHtml(contentType) == contentType.major = "text" /\ contentType.sub = "html"
Count(b) == IF b THEN 1 ELSE 0
\* How many of the five signals fire on the text t.
SignalsFired(t) ==
    Count(t.feat.scripts >= 5)
    + Count(VisibleLength(t) > 0 /\ VisibleLength(t) < 220 /\ t.feat.scripts >= 1)
    + Count(t.feat.root) + Count(t.feat.jsreq) + Count(t.feat.hydr)

SourceRank(source) ==
    CASE source = "http-link-header" -> 1
      [] source = "html-link-alternate" -> 2
      [] OTHER -> 3

\* The candidate list holds no URL twice and lists the Link-header
\* alternates first, the HTML alternates next and the heuristics last.
DiscoveryOrder ==
    \A i \in 1..Len(alternateCandidates) : \A j \in 1..Len(alternateCandidates) :
        i < j =>
            /\ alternateCandidates[i].url # alternateCandidates[j].url
            /\ SourceRank(alternateCandidates[i].source)
                   <= SourceRank(alternateCandidates[j].source)

IsCandidateAttempt(i) == attempts[i].kind = "candidate"

\* The place in the candidate list of the candidate fetched by attempt i.
Position(i) ==
    CHOOSE k \in 1..Len(alternateCandidates) :
        alternateCandidates[k].url = attempts[i].value.redirectChain[1]

UsefulCandidate(i) ==
    /\ IsCandidateAttempt(i)
    /\ attempts[i].value.kind = "success"
    /\ isUsefulSmartAlternate(attempts[i].value)

SkippedAsPrivate(k) ==
    \E n \in 1..Len(smartNotes) :
        smartNotes[n] = Note("skipped-private", alternateCandidates[k].url)

\* C21: the candidates are in deduplicated discovery order; the candidate
\* fetches happen one after the other in that order, none being passed over
\* unless the guard blocks it; and a useful candidate ends the invocation at
\* once: it is the last fetch attempt, nothing is requested after it, and the
\* result is its response, a success with alternateUrlUsed naming it.
FirstUsefulCandidateReturned ==
    /\ DiscoveryOrder
    /\ \A i \in 1..Len(attempts) : IsCandidateAttempt(i) =>
           /\ \E k \in 1..Len(alternateCandidates) :
                  alternateCandidates[k].url = attempts[i].value.redirectChain[1]
           /\ \A k \in 1..(Position(i) - 1) :
                  \/ SkippedAsPrivate(k)
                  \/ \E j \in 1..(i - 1) : IsCandidateAttempt(j) /\ Position(j) = k
           /\ \A j \in 1..(i - 1) :
                  /\ attempts[j].sent < attempts[i].sent
                  /\ IsCandidateAttempt(j) => Position(j) < Position(i)
    /\ \A i \in 1..Len(attempts) : UsefulCandidate(i) =>
           /\ i = Len(attempts)
           /\ Returned
           /\ Len(requests) = attempts[i].sent
           /\ ~result.isError
           /\ Details.alternateUrlUsed
                  = redactUrlCredentials(alternateCandidates[Position(i)].url)
           /\ Details.finalUrl = redactUrlCredentials(attempts[i].value.finalUrl)
           /\ result.text.body.text = attempts[i].value.streamed.text

\* Of three candidates (one per source, "/page.md" being named twice by the
\* page), the first was fetched and skipped and the second was returned.
SecondCandidateReturned ==
    /\ Returned
    /\ [i \in 1..Len(alternateCandidates) |-> alternateCandidates[i].source]
           = <<"http-link-header", "html-link-alternate", "wordpress-api">>
    /\ Len(attempts) = 3
    /\ ~UsefulCandidate(2)
    /\ UsefulCandidate(3)
    /\ Position(3) = 2
    /\ Details.alternateUrlUsed.path = "/alt.md"

\* The body a fetch attempt captured is empty or holds whitespace only,
\* whatever notice was appended to it.
BlankBody(a) == a.streamed.text.feat.blank

NotedNotUseful(i) ==
    \E n \in 1..Len(smartNotes) :
        smartNotes[n] = Note("alternate-not-useful", attempts[i].value.redirectChain[1])

\* C22: a candidate is returned as the result only if its response has a
\* 2xx status, is not detected as a JS shell and has a body that is not
\* blank; a candidate whose body is empty or whitespace-only is skipped with
\* a note, in full mode and in probe mode.
CandidateReturnedOnlyIfNonBlank ==
    \A i \in 1..Len(attempts) :
        (IsCandidateAttempt(i) /\ attempts[i].value.kind = "success") =>
            /\ UsefulCandidate(i) =>
                   /\ Is2xx(attempts[i].value.status)
                   /\ ~attempts[i].value.jsShellDetection.detected
                   /\ ~BlankBody(attempts[i].value)
            /\ BlankBody(attempts[i].value) =>
                   /\ NotedNotUseful(i)
                   /\ Returned =>
                          Details.alternateUrlUsed
                              # redactUrlCredentials(attempts[i].value.redirectChain[1])

\* The probe of a smart invocation was answered with a content type off
\* the textual allowlist.
ProbeUnsupported ==
    /\ attempts # <<>>
    /\ attempts[1].kind = "probe"
    /\ ~isTextContentType(attempts[1].value.contentType)

\* C23: when the probe response has unsupported content the invocation
\* returns at once the unsupported-content error for that response: the
\* probe is its only fetch attempt, no candidate is collected, and nothing
\* is requested after the probe's requests.
ProbeUnsupportedStopsAtOnce ==
    ProbeUnsupported =>
        /\ Returned
        /\ Len(attempts) = 1
        /\ alternateCandidates = <<>>
        /\ Len(requests) = attempts[1].sent
        /\ result.isError
        /\ result.text.body = MessageBody("Unsupported content-type", NoReason)
        /\ Details.status = attempts[1].value.status
        /\ Details.contentType = attempts[1].value.contentType
        /\ Details.finalUrl = redactUrlCredentials(attempts[1].value.finalUrl)
        /\ Details.alternateCandidates = <<>>
        /\ Details.alternateUrlUsed = NoUrl

\* The probe followed a redirect to an image and the invocation ended
\* there, after two requests.
ProbeFoundImageAfterRedirect ==
    /\ Returned
    /\ ProbeUnsupported
    /\ Len(requests) = 2
    /\ HasNote("probe-non-text")
    /\ Details.status = 200

PrimaryAttempts == {i \in 1..Len(attempts) : attempts[i].kind = "primary"}

\* A smart invocation whose probe returned a text has returned after its
\* candidate loop ran to the end without a useful candidate: no error was
\* thrown, or one was thrown by the fetch that follows the loop.
NoCandidateUseful ==
    /\ Returned
    /\ params.strategy = "smart"
    /\ attempts # <<>>
    /\ attempts[1].value.kind = "success"
    /\ \A i \in 1..Len(attempts) : ~UsefulCandidate(i)
    /\ thrown.name = "" \/ attempt.kind = "primary"

ProbeSuffices == ~probeAttempt.jsShellDetection.detected /\ params.mode = "probe"

\* The attempts that returned before the primary fetch was started.
BeforePrimary == {i \in 1..Len(attempts) : attempts[i].kind # "primary"}

\* C24: when no candidate is useful, the probe was not a JS shell and the
\* mode is probe, the result is the probe response and nothing is requested
\* after the last candidate; in every other case where no candidate is
\* useful exactly one more fetch attempt is made, in the requested mode, and
\* the request it starts with is for the final URL of the probe.
SmartFallbackOneMoreFetch ==
    NoCandidateUseful =>
        IF ProbeSuffices
        THEN /\ PrimaryAttempts = {}
             /\ attempt.kind # "primary"
             /\ Len(requests) = Last(attempts).sent
             /\ result.isError = IsErrorStatus(probeAttempt.status)
             /\ result.text.body.text = probeAttempt.streamed.text
             /\ Details.finalUrl = redactUrlCredentials(probeAttempt.finalUrl)
             /\ Details.status = probeAttempt.status
             /\ Details.probeBytesRead = probeAttempt.streamed.probeBytesRead
             /\ Details.alternateUrlUsed = NoUrl
        ELSE /\ attempt = [kind |-> "primary", mode |-> params.mode]
             /\ Cardinality(PrimaryAttempts) <= 1
             /\ Cardinality(BeforePrimary) >= 1
             /\ LET last == attempts[Cardinality(BeforePrimary)] IN
                Len(requests) > last.sent =>
                    requests[last.sent + 1] = probeAttempt.finalUrl
             /\ thrown.name = "" =>
                    /\ PrimaryAttempts = {Len(attempts)}
                    /\ Last(attempts).value.redirectChain[1] = probeAttempt.finalUrl
                    /\ Len(requests) = Last(attempts).sent
                    /\ Last(attempts).value.kind = "success" =>
                           (Last(attempts).value.streamed.isProbe
                                <=> params.mode = "probe")

\* In probe mode the probe found a JS shell, two candidates were fetched
\* and skipped, and the final URL of the probe was probed once more.
ShellProbedAgainAfterCandidates ==
    /\ NoCandidateUseful
    /\ thrown.name = ""
    /\ params.mode = "probe"
    /\ probeAttempt.jsShellDetection.detected
    /\ Len(attempts) >= 4
    /\ IsCandidateAttempt(2)
    /\ IsCandidateAttempt(3)
    /\ Last(attempts).kind = "primary"
    /\ Last(attempts).value.streamed.isProbe

\* The probe of a smart invocation found a JS shell, no candidate was
\* useful, and the primary fetch returned a text that is not useful either.
ShellWithoutRemedy ==
    /\ NoCandidateUseful
    /\ thrown.name = ""
    /\ probeAttempt.jsShellDetection.detected
    /\ Last(attempts).kind = "primary"
    /\ Last(attempts).value.kind = "success"
    /\ ~isUsefulSmartAlternate(Last(attempts).value)

\* C25: when the probe was a JS shell and neither a candidate nor the
\* primary fetch is useful, the result is the primary response, its text
\* followed by the smart-strategy note block that lists the notes, and it is
\* an error exactly when the status of the primary response is not 2xx; and
\* no result that reports a JS shell with a 2xx status is an error.
ShellFallbackKeepsPrimary ==
    /\ ShellWithoutRemedy =>
           /\ result.text.body.kind = "text"
           /\ result.text.body.text = Last(attempts).value.streamed.text
           /\ result.text.body.fallback
           /\ result.text.body.notes = smartNotes
           /\ Last(smartNotes).kind = "still-js-heavy"
           /\ result.isError = IsErrorStatus(Last(attempts).value.status)
           /\ Details.status = Last(attempts).value.status
           /\ Details.finalUrl = redactUrlCredentials(Last(attempts).value.finalUrl)
           /\ Details.alternateUrlUsed = NoUrl
    /\ (Returned /\ Details.detectedJsShell /\ Is2xx(Details.status)) =>
           ~result.isError

\* A shell page with two alternates, both fetched and skipped, was fetched
\* again and came back as a shell with status 200: the result is that
\* page with the note block, and it is not an error.
ShellPageReturnedWithNotes ==
    /\ ShellWithoutRemedy
    /\ Len(attempts) >= 4
    /\ Last(attempts).value.status = 200
    /\ Last(attempts).value.jsShellDetection.detected
    /\ Details.detectedJsShell
    /\ result.text.body.fallback
    /\ Len(result.text.body.notes) >= 5
    /\ ~result.isError

\* The notes that record what was decided about a candidate: a skip, with
\* its reason, or the selection.
IsDecision(note) ==
    note.kind \in {"skipped-private", "alternate-unsupported",
                   "alternate-not-useful", "using-alternate"}
Decisions(notes) == SelectSeq(notes, IsDecision)

\* C26: in every result of a smart invocation, an error raised by a later
\* fetch or by cancellation included, details.smartNotes lists in order the
\* decisions taken so far: a note for each candidate skipped and one for the
\* candidate selected, hence one for each candidate that was fetched.
SmartNotesInEveryResult ==
    (Returned /\ params.strategy = "smart") =>
        /\ Decisions(Details.smartNotes) = Decisions(smartNotes)
        /\ \A i \in 1..Len(attempts) : IsCandidateAttempt(i) =>
               \E n \in 1..Len(Details.smartNotes) :
                   /\ IsDecision(Details.smartNotes[n])
                   /\ Details.smartNotes[n].url = attempts[i].value.redirectChain[1]

\* The redirect hops followed by the attempts that returned, from attempt i
\* on: each followed one hop per URL of its chain after the first.
RECURSIVE HopsOfAttempts(_)
HopsOfAttempts(i) ==
    IF i > Len(attempts) THEN 0
    ELSE Len(attempts[i].value.redirectChain) - 1 + HopsOfAttempts(i + 1)

\* The requests sent by the attempt that has not returned (it is running,
\* or it threw): all but the first followed a redirect hop.
RequestsOfOpenAttempt ==
    Len(requests) - (IF attempts = <<>> THEN 0 ELSE Last(attempts).sent)

HopsFollowed ==
    HopsOfAttempts(1)
    + (IF RequestsOfOpenAttempt > 0 THEN RequestsOfOpenAttempt - 1 ELSE 0)

\* C27: the redirect hops followed by the probe fetch, the candidate
\* fetches and the primary fetch of an invocation never exceed 10 together.
HopCapSharedByInvocation == HopsFollowed <= MAX_REDIRECTS

\* C28: the temp file handle a full-mode capture opened is closed when its
\* attempt has returned, and when it has thrown after a read error, a
\* cancellation during the body read or a write error: a handle is open only
\* while its own capture is reading or closing, the one exception being a
\* capture whose close() itself rejected.
HandleClosedWhenAttemptEnds ==
    /\ \A i \in 1..Len(attempts) :
           attempts[i].dir # 0 => ~dirs[attempts[i].dir].open
    /\ \A d \in 1..Len(dirs) :
           dirs[d].open =>
               /\ cap.dir = d
               /\ pc \in {"reading", "closing"} \/ cap.close = "rejected"
    /\ (Returned /\ cap.dir # 0 /\ cap.close # "rejected") =>
           /\ cap.close = "resolved"
           /\ cap.outcome \in {"return", "throw"}
           /\ ~dirs[cap.dir].open

\* The caller aborted while the second chunk was awaited: the read was
\* rejected, the file that holds the first chunk was closed, and the
\* attempt threw.
HandleClosedAfterCancelledRead ==
    /\ Returned
    /\ abortedAt = "reading"
    /\ cap.dir # 0
    /\ cap.outcome = "throw"
    /\ thrown.name = "AbortError"
    /\ cap.close = "resolved"
    /\ dirs[cap.dir].written > 0
    /\ ~dirs[cap.dir].open

\* The text of a body delivered in the given chunks.
RECURSIVE BodyOf(_)
BodyOf(chunks) ==
    IF chunks = <<>> THEN EmptyText ELSE Concat(Head(chunks), BodyOf(Tail(chunks)))

Body == BodyOf(response.chunks)

\* The first lines of the body, as many as the line cap allows.
HeadLines == SubSeq(Body, 1, DEFAULT_MAX_LINES)

\* A full-mode invocation returned the capture of a textual 2xx body that
\* has more lines than the line cap and no more bytes than the byte cap, the
\* caller's maxChars being at least the length of the head.
LongBodyUnderByteCap ==
    /\ Returned
    /\ thrown.name = ""
    /\ params.mode = "full"
    /\ attempts # <<>>
    /\ Last(attempts).value.kind = "success"
    /\ Is2xx(response.status)
    /\ response.hasBody
    /\ Len(Body) > DEFAULT_MAX_LINES
    /\ Chars(Body) <= DEFAULT_MAX_BYTES
    /\ params.maxChars >= Chars(HeadLines)

\* C29: such a body gives a success that is truncated by lines, and neither
\* by bytes nor by maxChars; its text is the head lines followed by the
\* truncation notice, and fullOutputPath names a file that exists, is
\* closed and holds every character of the body.
LineCapTruncationKeepsFile ==
    LongBodyUnderByteCap =>
        /\ ~result.isError
        /\ Details.truncated
        /\ Details.truncatedByLines
        /\ ~Details.truncatedByBytes
        /\ ~Details.truncatedByMaxChars
        /\ result.text.body.text.content = HeadLines
        /\ result.text.body.text.notice = "truncation"
        /\ Details.originalCharacters = Chars(Body)
        /\ Details.fullOutputPath \in 1..Len(dirs)
        /\ dirs[Details.fullOutputPath].exists
        /\ ~dirs[Details.fullOutputPath].open
        /\ dirs[Details.fullOutputPath].written = Chars(Body)

\* A direct fetch of a body of four lines and as many bytes as the byte
\* cap allows: three lines are returned and the file holds them all.
FourLinesCutToThree ==
    /\ LongBodyUnderByteCap
    /\ params.strategy = "direct"
    /\ Len(Body) = DEFAULT_MAX_LINES + 1
    /\ Chars(Body) = DEFAULT_MAX_BYTES
    /\ Details.truncatedByLines
    /\ Details.truncation.outputLines = DEFAULT_MAX_LINES
    /\ dirs[Details.fullOutputPath].written = DEFAULT_MAX_BYTES

\* The result was built from the text of a fetched response.
ResultFromResponseText == Returned /\ result.text.body.kind = "text"

\* C30: in every result built from a fetched response the number of
\* characters returned, details.returnedCharacters, is at most the caller's
\* maxChars.
ReturnedWithinMaxChars ==
    ResultFromResponseText => Details.returnedCharacters <= params.maxChars

\* One turn of the read loop of streamResponseText took a chunk.
ChunkTaken == pc = "reading" /\ pc' = "reading" /\ cap'.rest # cap.rest

\* The read loop of streamResponseText came to the end of the body.
EndOfStream == pc = "closing" /\ cap.outcome = "return"

\* C31: every chunk the read loop takes is written to the temp file and
\* added to totalCharacters, and once the head is frozen by the line cap or
\* the byte cap a further chunk leaves the head text and its truncation
\* record unchanged; at the end of the stream the file holds the whole body
\* and totalCharacters counts the whole body.
FrozenHeadWholeFile ==
    /\ [][ChunkTaken =>
            /\ cap'.totalCharacters = cap.totalCharacters + Chars(Head(cap.rest))
            /\ dirs'[cap.dir].written
                   = dirs[cap.dir].written + Chars(Head(cap.rest))
            /\ cap.headTruncation.truncated =>
                   /\ cap'.headText = cap.headText
                   /\ cap'.headTruncation = cap.headTruncation]_vars
    /\ [](EndOfStream =>
            /\ cap.totalCharacters = Chars(Body)
            /\ dirs[cap.dir].written = Chars(Body))

\* A body came to its end with chunks taken after the head was frozen: the
\* truncation record counts fewer bytes than the file holds.
ChunksWrittenAfterFreeze ==
    /\ EndOfStream
    /\ cap.headTruncation.truncated
    /\ cap.headTruncation.truncatedBy = "lines"
    /\ cap.headTruncation.totalBytes < Chars(Body)
    /\ dirs[cap.dir].written = Chars(Body)

\* A full-mode invocation returned the capture of the last response, cut by
\* the line cap or the byte cap.
HeadTruncatedResult ==
    /\ Returned
    /\ thrown.name = ""
    /\ params.mode = "full"
    /\ attempts # <<>>
    /\ Last(attempts).value.kind = "success"
    /\ response.hasBody
    /\ Details.truncation.truncated

\* C32: when line or byte truncation occurred, the totals that the
\* truncation notice and details.truncation cite are the lines and bytes of
\* the whole response body, whatever the chunks it came in.
TruncationCitesWholeBody ==
    HeadTruncatedResult =>
        /\ Details.truncation.totalLines = Len(Body)
        /\ Details.truncation.totalBytes = Chars(Body)

\* A probe capture is reading a body or cancelling its reader.
InProbeCapture == pc \in {"probing", "probeCancel"}

\* C33: a probe capture keeps at most DEFAULT_PROBE_MAX_BYTES bytes of the
\* body whatever the sizes of the chunks, and every result reports
\* probeBytesRead within that limit; the read loop is left only through the
\* cancellation of the reader, be it at the limit, at the end of the stream
\* or on a read error; and no temp directory or file is created.
ProbeWithinLimitCancelsReader ==
    /\ [](InProbeCapture =>
            /\ cap.bytesRead <= DEFAULT_PROBE_MAX_BYTES
            /\ cap.dir = 0)
    /\ [](Returned => Details.probeBytesRead <= DEFAULT_PROBE_MAX_BYTES)
    /\ [](\A i \in 1..Len(attempts) :
            /\ attempts[i].value.kind = "success"
            /\ attempts[i].value.streamed.isProbe
            => /\ attempts[i].read <= DEFAULT_PROBE_MAX_BYTES
               /\ attempts[i].value.streamed.probeBytesRead = attempts[i].read)
    /\ [][pc = "probing" => pc' \in {"probing", "probeCancel"}]_vars
    /\ [][InProbeCapture => dirs' = dirs]_vars

\* A probe returned a sample cut inside the second chunk of a longer body,
\* and no temp directory was ever created.
ProbeCutInsideChunk ==
    /\ Returned
    /\ params.mode = "probe"
    /\ Details.probeBytesRead = DEFAULT_PROBE_MAX_BYTES
    /\ Len(response.chunks) > 2
    /\ Chars(response.chunks[1]) < DEFAULT_PROBE_MAX_BYTES
    /\ Chars(response.chunks[1]) + Chars(response.chunks[2]) > DEFAULT_PROBE_MAX_BYTES
    /\ dirs = <<>>

\* The IPv4 address in the last two groups of an IPv6 address.
EmbeddedIPv4(g) == V4Host(g[7] \div 256, g[7] % 256, g[8] \div 256, g[8] % 256)

\* The IPv6 addresses of the stated ranges that are blocked whatever
\* their other bits: "::", "::1", fe80::/10 and fc00::/7.
InStatedV6Ranges(g) ==
    \/ \A i \in 1..8 : g[i] = 0
    \/ (\A i \in 1..7 : g[i] = 0) /\ g[8] = 1
    \/ g[1] \div 64 = 65152 \div 64
    \/ g[1] \div 512 = 64512 \div 512

\* The IPv4-mapped addresses, ::ffff:a.b.c.d.
IsIPv4Mapped(g) == (\A i \in 1..5 : g[i] = 0) /\ g[6] = 65535

\* An invocation on an IPv6 literal, the override being off, has returned.
V6TargetSettled ==
    /\ Returned
    /\ OverrideDisabled
    /\ targetUrl # NoUrl
    /\ targetUrl.host.kind = "v6"

\* C34: the guard blocks every IPv6 target in the stated ranges, "::",
\* "::1", fe80::/10 and fc00::/7, and it blocks an IPv4-mapped target
\* exactly when the embedded IPv4 address is private.
V6BlockedAsStated ==
    V6TargetSettled =>
        /\ InStatedV6Ranges(targetUrl.host.o) => TargetBlocked
        /\ IsIPv4Mapped(targetUrl.host.o) =>
               (TargetBlocked <=> isPrivateIPv4(EmbeddedIPv4(targetUrl.host.o)))

\* The fetch of a smart candidate raised, and execute has returned.
CandidateRaised ==
    /\ Returned
    /\ attempt.kind = "candidate"
    /\ thrown.name # ""

\* The status of the error result for an error that is not a cancellation.
StatusOfError(name) ==
    IF name = "RedirectBlockedError" THEN 403
    ELSE IF name = "TooManyRedirectsError" THEN 508
    ELSE 500

\* Nothing was requested after the candidate that raised: the requests
\* since the last completed attempt are those of the candidate's own chain,
\* and no primary fetch was made.
NothingAfterCandidate ==
    /\ PrimaryAttempts = {}
    /\ redirectChain[1] = alternateCandidates[candIdx].url
    /\ RequestsOfOpenAttempt <= Len(redirectChain)
    /\ \A k \in 1..RequestsOfOpenAttempt :
           requests[Last(attempts).sent + k] = redirectChain[k]

\* C35 as stated: when the fetch of a candidate raises, the invocation
\* returns the error result of that error, 403 for a redirect to a blocked
\* host, 508 for too many redirects and 500 otherwise; no other candidate
\* is tried and the primary is not fetched.
CandidateErrorEndsInvocation ==
    CandidateRaised /\ thrown.name # "AbortError" =>
        /\ result.isError
        /\ Details.status = StatusOfError(thrown.name)
        /\ NothingAfterCandidate

\* C35: the same, unless the signal is aborted by the time the error is
\* caught, in which case the result is the cancellation result.
CandidateErrorEndsInvocationUnlessAborted ==
    CandidateRaised =>
        /\ result.isError
        /\ Details.status = (IF signal \/ thrown.name = "AbortError" THEN 499
                             ELSE StatusOfError(thrown.name))
        /\ NothingAfterCandidate

\* The first of two candidates redirected to a private host: the result is
\* 403 and the second candidate was never requested.
FirstCandidateRedirectBlocked ==
    /\ CandidateRaised
    /\ ~signal
    /\ thrown.name = "RedirectBlockedError"
    /\ Details.status = 403
    /\ candIdx < Len(alternateCandidates)
    /\ NotRequested(alternateCandidates[candIdx + 1].url)

AuthorizationName == <<"A", "u", "t", "h", "o", "r", "i", "z", "a", "t", "i", "o", "n">>
CookieName == <<"C", "O", "O", "K", "I", "E">>

\* C36: every request of an invocation, the first, every redirect hop and
\* every smart candidate, whatever its origin, carries the prepared request
\* header set unchanged, the caller's Authorization and Cookie headers
\* included.
SameHeadersOnEveryRequest ==
    /\ Len(wire) = Len(requests)
    /\ \A k \in 1..Len(wire) :
          /\ wire[k] = params.preparedHeaders.requestHeaders
          /\ \A j \in 1..Len(params.headers) :
                params.headers[j].name \in {AuthorizationName, CookieName} =>
                    /\ HasHeader(wire[k], params.headers[j].name)
                    /\ HeaderValue(wire[k], params.headers[j].name)
                           = params.headers[j].value

\* An invocation with Authorization and Cookie headers was redirected to
\* another origin: the request to the other host carried both headers.
CredentialsSentToOtherHost ==
    /\ Returned
    /\ Len(redirectChain) >= 2
    /\ Last(redirectChain).host # redirectChain[1].host
    /\ Last(requests) = Last(redirectChain)
    /\ HasHeader(Last(wire), AuthorizationName)
    /\ HeaderValue(Last(wire), AuthorizationName) = "Bearer abc"
    /\ HasHeader(Last(wire), CookieName)
    /\ HeaderValue(Last(wire), CookieName) = "sid=1"

\* A redirect was followed, or the result comes from an alternate.
RedirectedOrAlternate ==
    HopsFollowed > 0 \/ Details.alternateUrlUsed # NoUrl

\* The result was built from the response of a completed attempt.
ResultFromResponse == Returned /\ thrown.name = "" /\ attempts # <<>>

\* Attempt i ended at the URL that details.resolvedUrl names, and that URL
\* was the last one requested in the attempt.
ResolvedByAttempt(i) ==
    /\ Details.resolvedUrl = redactUrlCredentials(attempts[i].value.finalUrl)
    /\ requests[attempts[i].sent] = attempts[i].value.finalUrl

CancelledBeforeExecution ==
    /\ CancelledResult
    /\ result.text.body = MessageBody("Request cancelled before execution.", NoReason)
    /\ Details.resolvedUrl = NoUrl
    /\ Details.redirectChain = <<>>

\* C38: cancellation comes before every other classification.  With the
\* signal aborted before execute starts the result is 499, nothing is
\* requested, and neither the validity of the URL nor the guard decide
\* anything; an error caught while the signal is aborted, a blocked
\* redirect or too many redirects included, gives 499 and not 403, 508 or
\* 500.
CancellationComesFirst ==
    Returned =>
        /\ abortedAt = "start" =>
               /\ CancelledBeforeExecution
               /\ requests = <<>>
               /\ targetUrl = NoUrl
        /\ (thrown.name # "" /\ signal) => CancelledResult

\* A redirect to a private host was refused after the signal had been
\* aborted: the result is the cancellation.
CancelledThoughRedirectBlocked ==
    /\ Returned
    /\ signal
    /\ abortedAt # "start"
    /\ thrown.name = "RedirectBlockedError"
    /\ blockReason.blocked
    /\ Details.status = 499
    /\ result.text.body = MessageBody("Request cancelled.", NoReason)

\* The result reports a response with a textual content type and a 2xx
\* status.
TextualAnd2xx ==
    /\ ResultFromResponse
    /\ \E i \in 1..Len(attempts) :
          /\ attempts[i].value.kind = "success"
          /\ attempts[i].value.status = Details.status
          /\ attempts[i].value.contentType = Details.contentType
          /\ ResolvedByAttempt(i)
    /\ isTextContentType(Details.contentType)
    /\ Is2xx(Details.status)

\* C39: in every result isError is not set (FALSE here) exactly when the
\* response returned has a textual content type and a 2xx status, and is
\* true otherwise; the banner is "Web fetch succeeded" exactly when isError
\* is not set and "Web fetch failed" exactly when it is true.
IsErrorIffNotTextual2xx ==
    Returned =>
        /\ ~result.isError <=> TextualAnd2xx
        /\ result.text.banner = "Web fetch succeeded" <=> ~result.isError
        /\ result.text.banner = "Web fetch failed" <=> result.isError

\* A text/plain response with status 404 was returned as an error with
\* the banner of a failure.
TextualNotFoundIsError ==
    /\ ResultFromResponse
    /\ isTextContentType(Details.contentType)
    /\ Details.status = 404
    /\ result.isError
    /\ result.text.banner = "Web fetch failed"

=============================================================================
